---- MODULE Spec2Model ----
(***************************************************************************)
(* A model of BlenderMalt/MaltNodes.py: the node tree (MaltTree) with its  *)
(* update / reload_nodes passes and their disable_updates flag, the link   *)
(* normalization, socket resolution (MaltSocket.get_linked), the graph     *)
(* compiler (MaltTree.get_generated_source) and MaltNode.setup_sockets.    *)
(***************************************************************************)
EXTENDS Integers, Sequences, FiniteSets, TLC

(***************************************************************************)
(* Bounds of the model.                                                    *)
(***************************************************************************)
\* the user never holds more than MaxLinks links in the tree
MaxLinks == 2
\* nesting depth of calls (a pass, the callbacks Blender fires inside it)
MaxDepth == 3

(***************************************************************************)
(* The node tree the model explores: tree.nodes, in order.  Two exit       *)
(* Graph-I/O nodes, a Struct node, a Function node of the pipeline         *)
(* descriptor, a Function node of the external library, a reroute.         *)
(***************************************************************************)
Nodes == <<"Out1", "Out2", "St", "Fn", "Lib", "Rr">>

NodeSet == {Nodes[i] : i \in 1..Len(Nodes)}

Kind(n) ==
    CASE n \in {"Out1", "Out2"} -> "MaltIONode"
      [] n = "St"               -> "MaltStructNode"
      [] n \in {"Fn", "Lib"}    -> "MaltFunctionNode"
      [] OTHER                  -> "NodeReroute"

\* isinstance(node, MaltNode)
IsMaltNode(n) == Kind(n) # "NodeReroute"

MaltNodes == {n \in NodeSet : IsMaltNode(n)}

\* MaltIONode.is_output
IsOutput(n) == n \in {"Out1", "Out2"}

\* node.inputs / node.outputs: the socket names, in collection order
Inputs(n) ==
    CASE n \in {"Out1", "Out2"} -> <<"result", "color">>
      [] n = "St"               -> <<"S", "m", "t">>
      [] n = "Fn"               -> <<"x", "t">>
      [] n = "Lib"              -> <<"x">>
      [] OTHER                  -> <<"Input">>

Outputs(n) ==
    CASE n \in {"Out1", "Out2"} -> <<>>
      [] n = "St"               -> <<"S", "m", "t">>
      [] n = "Fn"               -> <<"result">>
      [] n = "Lib"              -> <<"result", "t">>
      [] OTHER                  -> <<"Output">>

In(n, s)  == [node |-> n, out |-> FALSE, name |-> s]
Out(n, s) == [node |-> n, out |-> TRUE, name |-> s]

\* a reroute's sockets are Blender's own: they carry no data_type / array_size
IsMaltSocket(s) == IsMaltNode(s.node)

\* MaltSocket.data_type
DataType(s) ==
    CASE s.node \in {"Out1", "Out2"}      -> "float"
      [] s.node = "St" /\ s.name = "S"    -> "S"
      [] s.node = "St" /\ s.name = "t"    -> "sampler2D"
      [] s.node = "St"                    -> "float"
      [] s.node = "Fn" /\ s.name = "t"    -> "sampler2D"
      [] s.node = "Fn"                    -> "float"
      [] s.node = "Lib" /\ s.name = "t"   -> "sampler2D"
      [] s.node = "Lib" /\ s.out          -> "S"
      [] s.node = "Lib"                   -> "float"
      [] OTHER                            -> "NodeSocketColor"

\* MaltSocket.array_size
ArraySize(s) == IF s.node \in {"Out1", "Out2"} /\ s.name = "color" THEN 2 ELSE 0

Link(f, t) == [from |-> f, to |-> t]

\* the links the user draws in this model
Wires ==
    { Link(Out("Fn", "result"),  In("Out1", "result")),
      Link(Out("Fn", "result"),  In("Out2", "result")),
      Link(Out("St", "m"),       In("Out1", "result")),
      Link(Out("St", "m"),       In("Fn", "x")),
      Link(Out("Lib", "result"), In("St", "S")),
      Link(Out("St", "m"),       In("Out1", "color")),
      Link(Out("Fn", "result"),  In("St", "S")),
      Link(Out("Lib", "result"), In("Rr", "Input")),
      Link(Out("Rr", "Output"),  In("St", "S")),
      Link(Out("Rr", "Output"),  In("Rr", "Input")),
      Link(Out("Rr", "Output"),  In("Out2", "color")),
      Link(Out("St", "t"),       In("Fn", "t")),
      Link(Out("Fn", "result"),  In("St", "m")),
      Link(Out("Lib", "t"),      In("St", "t")) }

VARIABLES
    disable_updates,       \* MaltTree.disable_updates
    node_disable_updates,  \* MaltNode.disable_updates, per node
    links,                 \* MaltTree.links, in collection order
    pipeline,              \* language of get_pipeline_graph(), "none" if None
    library,               \* TRUE iff get_library_path() names a reflected library
    io_type,               \* MaltIONode.io_type of the exit nodes
    stack,                 \* the calls in progress, innermost last
    executed,              \* <<node, function>> run by the wrappers of the reload pass
    failed                 \* those of them that raised

tree_vars == <<disable_updates, node_disable_updates, links, pipeline, library,
               io_type, stack, executed, failed>>

\* One node seen apart from its tree, for the reconfiguration of its sockets
\* (MaltNode.setup_sockets and the malt_update that call it).
VARIABLES
    variant,               \* the node's class
    inputs,                \* self.inputs: the sockets, in collection order
    outputs,               \* self.outputs
    next_id,               \* the identity the next socket Blender creates gets
    socket_links,          \* what get_linked() returns, per linked socket (by identity)
    last_call              \* the node before its last reconfiguration, and the schema

socket_vars == <<variant, inputs, outputs, next_id, socket_links, last_call>>

\* One transpiler seen apart from any tree: a call of one of its functions.
VARIABLES
    request,               \* the function called and its arguments
    reply                  \* what it returned

transpiler_vars == <<request, reply>>

\* The library cache and its poll, track_library_changes, seen apart from
\* the compilation of the trees.
VARIABLES
    engine,                \* bpy.context.scene.render.engine == 'MALT'
    library_path,          \* tree.get_library_path() per tree, "" for None
    LIBRARIES,             \* __LIBRARIES
    TIMESTAMP,             \* __TIMESTAMP
    clock,                 \* the reading of the clock: time.time(), and the
                           \* time a modified file is stamped with
    mtime,                 \* os.stat(file).st_mtime, per file
    unreflected,           \* the library paths with a dependency modified
                           \* since a reflection last read it
    poll                   \* the poll in progress, or what the last one did

library_vars == <<engine, library_path, LIBRARIES, TIMESTAMP, clock, mtime,
                  unreflected, poll>>

vars == <<tree_vars, socket_vars, transpiler_vars, library_vars>>

Top == stack[Len(stack)]
Pop(stk) == SubSeq(stk, 1, Len(stk) - 1)

\* A call in progress.  kind: "update" (MaltTree.update), "reload"
\* (MaltTree.reload_nodes) or "wrapper" (MaltNode._disable_updates_wrapper);
\* pc: where it stands; it: its loop's iterator; raised: what its except
\* clause caught ("" if nothing); wrote: update wrote the source file;
\* source: what update's get_generated_source returned, NoSource before;
\* notify: it has just removed a link, Blender may fire update callbacks;
\* exc: it ends by an exception that goes on to its caller.
NoSource == [ok |-> FALSE]

Frame(kind, pc, node, fn) ==
    [kind |-> kind, pc |-> pc, it |-> 1, node |-> node, fn |-> fn,
     notify |-> FALSE, raised |-> "", source |-> NoSource, wrote |-> FALSE,
     exc |-> FALSE]

\* The cache at module load: __LIBRARIES = {}, __TIMESTAMP = time.time(), no
\* tree names a library, no poll has run.
NoPoll == [pc |-> "idle", passed |-> FALSE]
NoLibraries == [path \in {} |-> [resolved |-> FALSE]]
LibrariesAtRest ==
    /\ engine = TRUE
    /\ library_path = [tree \in {"T1", "T2"} |-> ""]
    /\ LIBRARIES = NoLibraries
    /\ TIMESTAMP = 0
    /\ clock = 0
    /\ mtime = [file \in {"A", "B", "C"} |-> 0]
    /\ unreflected = {}
    /\ poll = NoPoll

\* No transpiler function has been called.
NoRequest == [fn |-> "none"]
TranspilerAtRest == request = NoRequest /\ reply = NoRequest

(***************************************************************************)
(* The pipeline graph descriptor and the library (external, read-only).    *)
(***************************************************************************)
Parameter(name, type, size, io) == [name |-> name, type |-> type, size |-> size, io |-> io]

\* graph.functions: float f(float x, sampler2D t)
GraphFunctions == [f |-> [name |-> "f", type |-> "float",
                          parameters |-> <<Parameter("x", "float", 0, "in"),
                                           Parameter("t", "sampler2D", 0, "in")>>]]

\* get_library()['functions'] of a reflected library: S g(float x, out sampler2D t)
LibraryFunctions == [g |-> [name |-> "g", type |-> "S",
                            parameters |-> <<Parameter("x", "float", 0, "in"),
                                             Parameter("t", "sampler2D", 0, "out")>>]]

\* graph.graph_IO: float IO1(out float color[2]), float IO2(out float color[2])
GraphIO == [IO1 |-> [name |-> "IO1", type |-> "float",
                     parameters |-> <<Parameter("color", "float", 2, "out")>>],
            IO2 |-> [name |-> "IO2", type |-> "float",
                     parameters |-> <<Parameter("color", "float", 2, "out")>>]]

\* MaltFunctionNode.function_type / MaltStructNode.struct_type
function_type(n) == IF n = "Fn" THEN "f" ELSE "g"
struct_type(n) == "S"

\* type.startswith('sampler')
SamplerTypes == {"sampler2D"}

(***************************************************************************)
(* Values of the generated source: references and statements.              *)
(***************************************************************************)
Ref(kind, n, s) == [ref |-> kind, node |-> n, name |-> s]
NoneRef == Ref("None", "", "")
RaisedRef == Ref("raise", "", "")

\* SourceTranspiler.global_reference / parameter_reference / io_parameter_reference
global_reference(node_name, parameter_name) == Ref("global", node_name, parameter_name)
parameter_reference(node_name, parameter_name) == Ref("parameter", node_name, parameter_name)
io_parameter_reference(parameter_name) == Ref("io", "", parameter_name)

\* is_instantiable_type of the transpiler: only the GLSL one tests for samplers
transpiler_is_instantiable_type(lang, type) ==
    IF lang = "GLSL" THEN type \notin SamplerTypes ELSE TRUE

\* GLSLTranspiler / PythonTranspiler .asignment
asignment(lang, name, value) ==
    <<[st |-> "asignment", name |-> name, value |-> value]>>

\* .declaration: the Python backend has no declarations, it assigns
declaration(lang, type, size, name, initialization) ==
    IF lang = "GLSL"
    THEN <<[st |-> "declaration", type |-> type, size |-> size, name |-> name,
            value |-> initialization]>>
    ELSE asignment(lang, name, initialization)

\* .global_declaration: 'uniform ' + declaration; '' for the Python backend
global_declaration(lang, type, size, name) ==
    IF lang = "GLSL"
    THEN <<[st |-> "uniform", type |-> type, size |-> size, name |-> name,
            value |-> NoneRef]>>
    ELSE <<>>

\* .result
result(lang, value) == <<[st |-> "return", value |-> value]>>

\* .scoped: the code in a block of its own
scoped(lang, code) == <<[st |-> "scoped", code |-> code]>>

RECURSIVE ConcatAll(_)
ConcatAll(ss) == IF ss = <<>> THEN <<>> ELSE Head(ss) \o ConcatAll(Tail(ss))

Elems(seq) == {seq[i] : i \in 1..Len(seq)}

\* a variant of GLSLTranspiler.call that captures every result that is not
\* void in a local, whatever its type
call_capturing_any_type(lang, function, name, parameters) ==
    LET ps == function.parameters
        IsOut(i) == ps[i].io \in {"out", "inout"}
        pre == ConcatAll([i \in 1..Len(ps) |->
                            IF IsOut(i)
                            THEN declaration(lang, ps[i].type, ps[i].size,
                                     parameter_reference(name, ps[i].name), parameters[i])
                            ELSE <<>>])
        args == [i \in 1..Len(ps) |->
                    IF IsOut(i) THEN parameter_reference(name, ps[i].name)
                    ELSE parameters[i]]
        initialization == [ref |-> "call", node |-> name, name |-> function.name,
                           args |-> args]
    IN  [ok |-> TRUE,
         code |-> pre \o
            (IF function.type # "void"
             THEN declaration(lang, function.type, 0,
                      parameter_reference(name, "result"), initialization)
             ELSE <<[st |-> "statement", value |-> initialization]>>)]

\* GLSLTranspiler.call / PythonTranspiler.call -> [ok, code]
call(lang, function, name, parameters) ==
    LET ps == function.parameters
        IsOut(i) == ps[i].io \in {"out", "inout"}
    IN  IF lang = "GLSL"
        THEN LET pre == ConcatAll([i \in 1..Len(ps) |->
                            IF IsOut(i)
                            THEN declaration(lang, ps[i].type, ps[i].size,
                                     parameter_reference(name, ps[i].name), parameters[i])
                            ELSE <<>>])
                 args == [i \in 1..Len(ps) |->
                            IF IsOut(i) THEN parameter_reference(name, ps[i].name)
                            ELSE parameters[i]]
                 initialization == [ref |-> "call", node |-> name, name |-> function.name,
                                    args |-> args]
             IN  IF NoneRef \in Elems(args)
                 THEN [ok |-> FALSE, code |-> <<>>]     \* ','.join raises on None
                 ELSE [ok |-> TRUE,
                       code |-> pre \o
                          (IF function.type # "void"
                                /\ transpiler_is_instantiable_type(lang, function.type)
                           THEN declaration(lang, function.type, 0,
                                    parameter_reference(name, "result"), initialization)
                           ELSE <<[st |-> "statement", value |-> initialization]>>)]
        ELSE [ok |-> TRUE,
              code |-> <<[st |-> "asignment", name |-> Ref("table", name, ""),
                          value |-> NoneRef]>>
                  \o ConcatAll([i \in 1..Len(ps) |->
                         asignment(lang, parameter_reference(name, ps[i].name), parameters[i])])
                  \o <<[st |-> "statement",
                        value |-> [ref |-> "run_node", node |-> name, name |-> function.name,
                                   args |-> <<>>]]>>]

(***************************************************************************)
(* Identifiers as text: a string is the sequence of its characters.        *)
(***************************************************************************)
\* str.isalnum() or '_', over the characters the names are drawn from
IsIdentifierChar(c) == c \in {"a", "b", "c", "0", "_"}

\* str.replace('.', '_')
ReplaceDots(name) == [i \in 1..Len(name) |-> IF name[i] = "." THEN "_" ELSE name[i]]

\* ''.join(char for char in name if char.isalnum() or char == '_')
RECURSIVE KeepIdentifierChars(_)
KeepIdentifierChars(name) ==
    IF name = <<>> THEN <<>>
    ELSE (IF IsIdentifierChar(Head(name)) THEN <<Head(name)>> ELSE <<>>)
             \o KeepIdentifierChars(Tail(name))

\* str.replace('__', '_'): one pass, left to right, over non-overlapping matches
RECURSIVE ReplaceDoubleUnderscores(_)
ReplaceDoubleUnderscores(name) ==
    IF Len(name) < 2 THEN name
    ELSE IF name[1] = "_" /\ name[2] = "_"
         THEN <<"_">> \o ReplaceDoubleUnderscores(Tail(Tail(name)))
         ELSE <<name[1]>> \o ReplaceDoubleUnderscores(Tail(name))

\* MaltNode.get_source_name, of the node's name
get_source_name(name) ==
    ReplaceDoubleUnderscores(<<"_">> \o KeepIdentifierChars(ReplaceDots(name)))

\* GLSLTranspiler.global_reference: f'U_0{node_name}_0_{parameter_name}'
\* PythonTranspiler.global_reference: f'PARAMETERS["{node_name}"]["{parameter_name}"]'
global_reference_text(lang, node_name, parameter_name) ==
    IF lang = "GLSL"
    THEN <<"U", "_", "0">> \o node_name \o <<"_", "0", "_">> \o parameter_name
    ELSE <<"P", "A", "R", "A", "M", "E", "T", "E", "R", "S", "[", "\"">> \o node_name
             \o <<"\"", "]", "[", "\"">> \o parameter_name \o <<"\"", "]">>

\* GLSLTranspiler.parameter_reference: f'{node_name}_0_{parameter_name}'
\* PythonTranspiler.parameter_reference: f'{node_name}_parameters["{parameter_name}"]'
parameter_reference_text(lang, node_name, parameter_name) ==
    IF lang = "GLSL"
    THEN node_name \o <<"_", "0", "_">> \o parameter_name
    ELSE node_name \o <<"_", "p", "a", "r", "a", "m", "e", "t", "e", "r", "s", "[", "\"">>
             \o parameter_name \o <<"\"", "]">>

(***************************************************************************)
(* Socket resolution.                                                      *)
(***************************************************************************)
NoSocket == [node |-> "None", out |-> FALSE, name |-> ""]
RecursionError == [node |-> "RecursionError", out |-> FALSE, name |-> ""]

\* socket.links: the tree's links at this socket, in the tree's order
SocketLinks(s) == SelectSeq(links, LAMBDA l : IF s.out THEN l.from = s ELSE l.to = s)

\* socket.is_linked
is_linked(s) == \E i \in 1..Len(links) : IF s.out THEN links[i].from = s ELSE links[i].to = s

\* node.inputs / node.outputs as sockets
InputSockets(n) == [i \in 1..Len(Inputs(n)) |-> In(n, Inputs(n)[i])]
OutputSockets(n) == [i \in 1..Len(Outputs(n)) |-> Out(n, Outputs(n)[i])]

\* get_linked_internal.  active holds the sockets of the calls in progress:
\* a call on one of them repeats the same chain of calls without end, and
\* Python ends that with RecursionError.
RECURSIVE get_linked_internal(_, _)

\* lines 440-447, for the socket `linked` at the other end of the link
get_linked_through(socket, linked, active) ==
    IF Kind(linked.node) = "NodeReroute"
    THEN IF linked.out
         THEN IF Len(Inputs(linked.node)) = 0 THEN NoSocket
              ELSE get_linked_internal(InputSockets(linked.node)[1], active \cup {socket})
         ELSE IF Len(Outputs(linked.node)) = 0 THEN NoSocket
              ELSE get_linked_internal(OutputSockets(linked.node)[1], active \cup {socket})
    ELSE linked

get_linked_internal(socket, active) ==
    IF socket \in active THEN RecursionError
    ELSE IF ~is_linked(socket) THEN NoSocket
    ELSE get_linked_through(socket,
             IF socket.out THEN SocketLinks(socket)[1].to ELSE SocketLinks(socket)[1].from,
             active)

\* MaltSocket.get_linked
get_linked(socket) == get_linked_internal(socket, {})

\* MaltSocket.is_instantiable_type
is_instantiable_type(socket) == DataType(socket) \notin SamplerTypes

\* MaltSocket.get_source_global_reference
get_source_global_reference(socket) == global_reference(socket.node, socket.name)

\* get_pipeline_graph() is None: any use of the graph raises
NoGraph == pipeline = "none"

\* MaltFunctionNode.get_function / MaltIONode.get_function raise
get_function_raises(n) ==
    \/ NoGraph
    \/ /\ Kind(n) = "MaltFunctionNode"
       /\ function_type(n) \notin DOMAIN GraphFunctions
       /\ ~(library /\ function_type(n) \in DOMAIN LibraryFunctions)

get_function(n) ==
    IF Kind(n) = "MaltIONode" THEN GraphIO[io_type[n]]
    ELSE IF function_type(n) \in DOMAIN GraphFunctions
         THEN GraphFunctions[function_type(n)]
         ELSE LibraryFunctions[function_type(n)]

\* get_source_socket_reference of the socket's node
get_source_socket_reference(socket) ==
    CASE Kind(socket.node) = "MaltStructNode" ->
            IF socket.name = struct_type(socket.node)
            THEN Ref("local", socket.node, "")
            ELSE Ref("member", socket.node, socket.name)
      [] Kind(socket.node) = "MaltFunctionNode" ->
            IF NoGraph THEN RaisedRef
            ELSE IF transpiler_is_instantiable_type(pipeline, DataType(socket))
                 THEN parameter_reference(socket.node, socket.name)
                 ELSE IF get_function_raises(socket.node) THEN RaisedRef
                      ELSE Ref("inline_call", socket.node, socket.name)
      [] OTHER ->
            IF NoGraph THEN RaisedRef ELSE io_parameter_reference(socket.name)

\* MaltSocket.get_source_reference, linked being self.get_linked(): the
\* first branch has no return statement
source_reference_of(socket, linked) ==
    IF ~is_instantiable_type(socket) /\ ~socket.out /\ linked # NoSocket
    THEN IF linked = RecursionError THEN RaisedRef
         ELSE IF get_source_socket_reference(linked) = RaisedRef THEN RaisedRef
         ELSE NoneRef
    ELSE get_source_socket_reference(socket)

get_source_reference(socket) ==
    IF is_instantiable_type(socket) \/ socket.out
    THEN get_source_socket_reference(socket)
    ELSE source_reference_of(socket, get_linked(socket))

\* `linked.get_source_reference() if linked else socket.get_source_global_reference()`,
\* linked being socket.get_linked()
reference_or_global(socket, linked) ==
    IF linked = RecursionError THEN RaisedRef
    ELSE IF linked # NoSocket THEN get_source_reference(linked)
    ELSE get_source_global_reference(socket)

resolved_reference(socket) == reference_or_global(socket, get_linked(socket))

(***************************************************************************)
(* Node variants: get_source_code and get_source_global_parameters.        *)
(* A result [ok |-> FALSE] stands for a raised exception.                  *)
(***************************************************************************)
Raised == [ok |-> FALSE, code |-> <<>>]
Code(c) == [ok |-> TRUE, code |-> c]

\* the statements, unless computing one of them raised
CodeOrRaised(code) ==
    IF \E i \in 1..Len(code) :
           \/ code[i].value = RaisedRef
           \/ code[i].st \in {"asignment", "declaration"} /\ code[i].name = RaisedRef
    THEN Raised ELSE Code(code)

\* MaltStructNode.struct_input_is_linked (RecursionError is not None)
struct_input_is_linked(n) == get_linked(In(n, struct_type(n))) # NoSocket

\* MaltStructNode.get_source_code, lines 666-673: one iteration of the loop
StructMember(n, input, linked, struct_linked) ==
    IF DataType(input) # struct_type(n) /\ (linked # NoSocket \/ ~struct_linked)
    THEN asignment(pipeline, get_source_reference(input), reference_or_global(input, linked))
    ELSE <<>>

\* MaltStructNode.get_source_code, struct_linked being struct_input_is_linked()
StructCode(n, struct_linked) ==
    declaration(pipeline, struct_type(n), 0, Ref("local", n, ""),
                IF struct_linked THEN resolved_reference(In(n, struct_type(n))) ELSE NoneRef)
    \o ConcatAll([i \in 1..Len(Inputs(n)) |->
          StructMember(n, InputSockets(n)[i], get_linked(InputSockets(n)[i]), struct_linked)])

StructSourceCode(n) == CodeOrRaised(StructCode(n, struct_input_is_linked(n)))

\* MaltFunctionNode.get_source_code, lines 731-741
FunctionParameters(n, function) ==
    [i \in 1..Len(function.parameters) |->
        IF function.parameters[i].io \in {"", "in", "inout"}
        THEN resolved_reference(In(n, function.parameters[i].name))
        ELSE NoneRef]

FunctionCall(n, function, parameters) ==
    IF RaisedRef \in Elems(parameters) THEN Raised
    ELSE call(pipeline, function, n, parameters)

\* MaltFunctionNode.get_source_code
FunctionSourceCode(n) ==
    IF get_function_raises(n) THEN Raised
    ELSE FunctionCall(n, get_function(n), FunctionParameters(n, get_function(n)))

\* MaltIONode.get_source_code, lines 786-792: one iteration of the loop
IOAssign(input) ==
    IF input.name = "result" THEN <<>>
    ELSE asignment(pipeline, get_source_reference(input), resolved_reference(input))

\* MaltIONode.get_source_code, lines 794-799: the result's default is taken
\* from `socket`, the variable of the loop above it
IOResult(n, function, linked) ==
    IF function.type = "void" THEN <<>>
    ELSE IF Len(Inputs(n)) = 0 \/ "result" \notin Elems(Inputs(n))
    THEN result(pipeline, RaisedRef)
    ELSE IF linked # NoSocket
    THEN result(pipeline, reference_or_global(In(n, "result"), linked))
    ELSE result(pipeline, get_source_global_reference(InputSockets(n)[Len(Inputs(n))]))

\* MaltIONode.get_source_code
IOSourceCode(n) ==
    IF ~IsOutput(n) THEN Code(<<>>)
    ELSE IF get_function_raises(n) THEN Raised
    ELSE CodeOrRaised(
            ConcatAll([i \in 1..Len(Inputs(n)) |-> IOAssign(InputSockets(n)[i])])
            \o IOResult(n, get_function(n), get_linked(In(n, "result"))))

\* node.get_source_code(transpiler)
get_source_code(n) ==
    CASE Kind(n) = "MaltStructNode"   -> StructSourceCode(n)
      [] Kind(n) = "MaltFunctionNode" -> FunctionSourceCode(n)
      [] OTHER                        -> IOSourceCode(n)

\* MaltNode.sockets_to_global_parameters, lines 593-594: one socket
SocketGlobal(socket, linked) ==
    IF DataType(socket) # "" /\ linked = RecursionError
    THEN <<[st |-> "raise", value |-> RaisedRef]>>
    ELSE IF DataType(socket) # "" /\ linked = NoSocket
    THEN global_declaration(pipeline, DataType(socket), ArraySize(socket),
                            get_source_global_reference(socket))
    ELSE <<>>

\* MaltNode.sockets_to_global_parameters
sockets_to_global_parameters(sockets) ==
    CodeOrRaised(ConcatAll([i \in 1..Len(sockets) |->
                               SocketGlobal(sockets[i], get_linked(sockets[i]))]))

\* node.get_source_global_parameters(transpiler)
get_source_global_parameters(n) ==
    IF Kind(n) = "MaltStructNode"
    THEN IF get_linked(In(n, struct_type(n))) = RecursionError THEN Raised
         ELSE IF struct_input_is_linked(n) = FALSE
              THEN sockets_to_global_parameters(
                       SelectSeq(InputSockets(n), LAMBDA s : DataType(s) # struct_type(n)))
              ELSE Code(<<>>)
    ELSE sockets_to_global_parameters(InputSockets(n))

(***************************************************************************)
(* MaltTree.get_generated_source.                                          *)
(***************************************************************************)
\* the exit nodes, in the tree's node order (empty without a pipeline graph)
output_nodes ==
    IF NoGraph THEN <<>>
    ELSE SelectSeq(Nodes, LAMBDA n : Kind(n) = "MaltIONode" /\ IsOutput(n))

\* add_node_inputs(node, list), from input i on.  acc carries list and the
\* enclosing linked_nodes; active holds the nodes whose call is in progress:
\* a call on one of them repeats without end (RecursionError, acc.err).
RECURSIVE add_node_inputs(_, _, _, _)

\* a variant of lines 99-100 without the test `new_node not in linked_nodes`
AddLinkedNodeAgain(new_node, acc) ==
    IF acc.err THEN acc ELSE [acc EXCEPT !.linked_nodes = Append(@, new_node)]

\* lines 99-100
AddLinkedNode(new_node, acc) ==
    IF acc.err \/ new_node \in Elems(acc.linked_nodes) THEN acc
    ELSE [acc EXCEPT !.linked_nodes = Append(@, new_node)]

\* line 98, after the recursive call returned acc
AppendNode(new_node, acc) ==
    IF acc.err THEN acc ELSE [acc EXCEPT !.list = Append(@, new_node)]

\* a variant of lines 97-98 that appends the node before it visits its inputs
AddNodeBeforeItsInputs(new_node, acc, active) ==
    AddLinkedNode(new_node,
        IF new_node \in Elems(acc.list) THEN acc
        ELSE IF new_node \in active THEN [acc EXCEPT !.err = TRUE]
        ELSE add_node_inputs(new_node, 1, AppendNode(new_node, acc),
                             active \cup {new_node}))

\* lines 95-100, for the node at the other end of the input's link
AddNode(new_node, acc, active) ==
    AddLinkedNode(new_node,
        IF new_node \in Elems(acc.list) THEN acc
        ELSE IF new_node \in active THEN [acc EXCEPT !.err = TRUE]
        ELSE AppendNode(new_node,
                 add_node_inputs(new_node, 1, acc, active \cup {new_node})))

add_node_inputs(node, i, acc, active) ==
    IF acc.err \/ i > Len(Inputs(node)) THEN acc
    ELSE IF ~is_linked(In(node, Inputs(node)[i]))
    THEN add_node_inputs(node, i + 1, acc, active)
    ELSE add_node_inputs(node, i + 1,
             AddNode(SocketLinks(In(node, Inputs(node)[i]))[1].from.node, acc, active),
             active)

\* a node's code in a boundary's source, kept apart from the other nodes' code
Block(n, r) == [node |-> n, code |-> r.code]

\* get_source, lines 106-111, for the nodes `all` to emit, the output last
SourceOf(all, walk) ==
    IF walk.err \/ \E i \in 1..Len(all) : ~get_source_code(all[i]).ok
    THEN [ok |-> FALSE, code |-> <<>>, linked_nodes |-> walk.linked_nodes]
    ELSE [ok |-> TRUE,
          code |-> [i \in 1..Len(all) |-> Block(all[i], get_source_code(all[i]))],
          linked_nodes |-> walk.linked_nodes]

\* get_source, lines 104-105, walk being what add_node_inputs(output, nodes) left
SourceOfWalk(output, walk) ==
    SourceOf(Append(SelectSeq(walk.list, IsMaltNode), output), walk)

\* get_source(output) -> [ok, code, linked_nodes]
get_source(output, linked_nodes) ==
    SourceOfWalk(output,
        add_node_inputs(output, 1,
            [list |-> <<>>, linked_nodes |-> linked_nodes, err |-> FALSE], {output}))

\* the loop `for output in output_nodes: shader[output.io_type] = get_source(output)`
RECURSIVE get_sources(_, _)

\* a variant of line 115 that leaves an entry the map already has
SetSourceKeepingFirst(i, acc, key, r) ==
    IF ~r.ok THEN [acc EXCEPT !.ok = FALSE]
    ELSE get_sources(i + 1,
            [ok |-> TRUE,
             shader |-> [k \in DOMAIN acc.shader \cup {key} |->
                            IF k = key /\ key \notin DOMAIN acc.shader THEN r.code
                            ELSE acc.shader[k]],
             linked_nodes |-> r.linked_nodes])

\* line 115: the assignment to shader[output.io_type]
SetSource(i, acc, key, r) ==
    IF ~r.ok THEN [acc EXCEPT !.ok = FALSE]
    ELSE get_sources(i + 1,
            [ok |-> TRUE,
             shader |-> [k \in DOMAIN acc.shader \cup {key} |->
                            IF k = key THEN r.code ELSE acc.shader[k]],
             linked_nodes |-> r.linked_nodes])

get_sources(i, acc) ==
    IF ~acc.ok \/ i > Len(output_nodes) THEN acc
    ELSE SetSource(i, acc, io_type[output_nodes[i]],
                   get_source(output_nodes[i], acc.linked_nodes))

\* a variant of the '#include' that is emitted only until a source was written
IncludeUntilWritten ==
    IF library /\ ~(stack # <<>> /\ Top.wrote)
    THEN <<[node |-> "", code |-> <<[st |-> "include"]>>]>> ELSE <<>>

\* the '#include' of the library, when the tree names one
Include == IF library THEN <<[node |-> "", code |-> <<[st |-> "include"]>>]>> ELSE <<>>

\* lines 116-123, sources being the per-boundary sources, globals the
\* global parameters of the linked nodes
Shader(sources, touched, globals) ==
    IF ~sources.ok \/ \E i \in 1..Len(globals) : ~globals[i].ok
    THEN [ok |-> FALSE]
    ELSE [ok |-> TRUE,
          shader |-> sources.shader,
          GLOBAL |-> Include \o [i \in 1..Len(touched) |-> Block(touched[i], globals[i])]]

\* a variant of lines 120-122 that goes over self.nodes instead of linked_nodes
GlobalsOfEveryNode(sources, touched) ==
    Shader(sources, SelectSeq(Nodes, IsMaltNode),
           [i \in 1..Len(SelectSeq(Nodes, IsMaltNode)) |->
               get_source_global_parameters(SelectSeq(Nodes, IsMaltNode)[i])])

\* lines 120-122: the linked nodes that are MaltNodes
GlobalsOf(sources, touched) ==
    Shader(sources, touched,
           [i \in 1..Len(touched) |-> get_source_global_parameters(touched[i])])

GeneratedSourceOf(sources) ==
    GlobalsOf(sources,
              IF sources.ok THEN SelectSeq(sources.linked_nodes, IsMaltNode) ELSE <<>>)

\* get_generated_source: what it hands to pipeline_graph.generate_source,
\* [ok |-> FALSE] when it raises
get_generated_source ==
    IF NoGraph THEN [ok |-> FALSE]
    ELSE GeneratedSourceOf(
             get_sources(1, [ok |-> TRUE, shader |-> <<>>, linked_nodes |-> output_nodes]))

(***************************************************************************)
(* Exceptions.  Every try of the module has a bare `except:` that prints   *)
(* the traceback and goes on with the statement after the try.             *)
(***************************************************************************)
\* a variant of MaltTree.update without its except clause: the exception
\* leaves update before line 168
UpdateOnRaisePropagates(f, what) ==
    [f EXCEPT !.pc = "return", !.raised = what, !.exc = TRUE, !.notify = FALSE]

\* MaltTree.update: except at line 165, then line 168
UpdateOnRaise(f, what) == [f EXCEPT !.pc = "reset", !.raised = what, !.notify = FALSE]

\* MaltTree.reload_nodes: except at line 134, then line 137
ReloadOnRaise(f, what) == [f EXCEPT !.pc = "reset", !.raised = what]

\* a variant of the wrapper without its except clause
WrapperOnRaisePropagates(f, what) ==
    [f EXCEPT !.pc = "return", !.raised = what, !.exc = TRUE]

\* MaltNode._disable_updates_wrapper: except at line 498, then line 501
WrapperOnRaise(f, what) == [f EXCEPT !.pc = "reset", !.raised = what]

\* an exception that reaches the frame f from a call it made
OnRaise(f, what) ==
    CASE f.kind = "update" -> UpdateOnRaise(f, what)
      [] f.kind = "reload" -> ReloadOnRaise(f, what)
      [] OTHER             -> WrapperOnRaise(f, what)

(***************************************************************************)
(* MaltNode.setup_sockets and the malt_update of the Inline and ArrayIndex  *)
(* nodes.  A socket is [id, name, data_type, array_size]: id is its        *)
(* identity, which a socket created anew never shares with an older one.   *)
(* A schema is the dict handed to setup_sockets, in insertion order: its   *)
(* entries are [name, type, size, parameter], parameter telling that the   *)
(* type is a Parameter instance rather than a string.                      *)
(***************************************************************************)
\* the user types or links only the first MaxInputs inputs of an Inline node
MaxInputs == 2
\* Blender creates at most MaxIds sockets for the node
MaxIds == 4

Entry(name, type, size) == [name |-> name, type |-> type, size |-> size, parameter |-> FALSE]

Names(seq) == {seq[i].name : i \in 1..Len(seq)}
Ids(seq) == {seq[i].id : i \in 1..Len(seq)}

\* current[name]
Named(current, name) == current[CHOOSE i \in 1..Len(current) : current[i].name = name]

\* setup, lines 541-546: the type and the size of the entry's socket
SetType(current, e) ==
    [i \in 1..Len(current) |->
        IF current[i].name = e.name
        THEN [current[i] EXCEPT !.data_type = e.type,
                                !.array_size = IF e.parameter THEN 0 ELSE e.size]
        ELSE current[i]]

\* setup, lines 538-546: the loop over new.items(), from entry i on
RECURSIVE setup_new(_, _, _, _)
setup_new(current, new, i, fresh) ==
    IF i > Len(new) THEN [sockets |-> current, fresh |-> fresh]
    ELSE IF new[i].name \in Names(current)
    THEN setup_new(SetType(current, new[i]), new, i + 1, fresh)
    ELSE setup_new(SetType(Append(current, [id |-> fresh, name |-> new[i].name,
                                            data_type |-> "", array_size |-> 0]),
                           new[i]),
                   new, i + 1, fresh + 1)

\* a variant of setup that clears the collection and creates every socket anew
setup_recreate(current, new, fresh) == setup_new(<<>>, new, 1, fresh)

\* setup(current, new), lines 529-546 -> the collection and the next identity
setup(current, new, fresh) ==
    setup_new(SelectSeq(current, LAMBDA e : e.name \in Names(new)), new, 1, fresh)

\* socket.get_linked() is not None
Linked(socket, lnks) == socket.id \in DOMAIN lnks

Min(a, b) == IF a < b THEN a ELSE b

\* MaltInlineNode.malt_update, lines 825-828
InlineLast(ins, lnks) ==
    IF \E i \in 1..Len(ins) : ins[i].data_type # "" \/ Linked(ins[i], lnks)
    THEN CHOOSE i \in 1..Len(ins) :
            /\ ins[i].data_type # "" \/ Linked(ins[i], lnks)
            /\ \A j \in (i + 1)..Len(ins) : ~(ins[j].data_type # "" \/ Linked(ins[j], lnks))
    ELSE 0

\* 'abcdefgh'
Letters == <<"a", "b", "c", "d", "e", "f", "g", "h">>

\* lines 832-840: the entry of variable var
InlineEntry(var, ins, lnks) ==
    IF var \notin Names(ins) THEN Entry(var, "", 0)
    ELSE IF Linked(Named(ins, var), lnks) /\ lnks[Named(ins, var).id].data_type # ""
    THEN Entry(var, lnks[Named(ins, var).id].data_type, lnks[Named(ins, var).id].array_size)
    ELSE Entry(var, Named(ins, var).data_type, Named(ins, var).array_size)

\* a variant of line 829 that reveals no input after the last one in use
InlineInputsInUse(ins, lnks) ==
    [i \in 1..Min(IF InlineLast(ins, lnks) = 0 THEN 1 ELSE InlineLast(ins, lnks), 8) |->
        InlineEntry(Letters[i], ins, lnks)]

\* MaltInlineNode.malt_update, lines 829-840: the inputs it hands to setup_sockets
InlineInputs(ins, lnks) ==
    [i \in 1..Min(InlineLast(ins, lnks) + 1, 8) |-> InlineEntry(Letters[i], ins, lnks)]

\* lines 842-846: the outputs
InlineOutputs(outs, lnks) ==
    IF "result" \in Names(outs) /\ Linked(Named(outs, "result"), lnks)
    THEN <<Entry("result", lnks[Named(outs, "result").id].data_type,
                 lnks[Named(outs, "result").id].array_size)>>
    ELSE <<Entry("result", "", 0)>>

\* MaltArrayIndexNode.malt_update, lines 896-902: self.inputs['array'].get_linked()
ArrayLinked(ins, lnks) ==
    /\ Linked(Named(ins, "array"), lnks)
    /\ lnks[Named(ins, "array").id].array_size > 0

ArrayIndexInputs(ins, lnks) ==
    IF ArrayLinked(ins, lnks)
    THEN <<Entry("array", lnks[Named(ins, "array").id].data_type,
                 lnks[Named(ins, "array").id].array_size),
           Entry("index", "int", 0)>>
    ELSE <<Entry("array", "", 1), Entry("index", "int", 0)>>

ArrayIndexOutputs(ins, lnks) ==
    IF ArrayLinked(ins, lnks)
    THEN <<Entry("element", lnks[Named(ins, "array").id].data_type, 0)>>
    ELSE <<Entry("element", "", 0)>>

\* the schemas malt_setup hands over in this model, as the node's function
\* changes in the pipeline graph or the library
InputSchemas ==
    { <<>>,
      <<Entry("x", "float", 0), Entry("y", "int", 0)>>,
      <<Entry("x", "float", 0), Entry("z", "float", 2)>>,
      <<Entry("y", "float", 2)>>,
      <<[name |-> "x", type |-> "float", size |-> 2, parameter |-> TRUE]>> }

OutputSchemas == { <<>>, <<Entry("result", "float", 0)>> }

\* the sockets of other nodes the user links the node's sockets to
OtherSockets ==
    { [data_type |-> "float", array_size |-> 2],
      [data_type |-> "", array_size |-> 0] }

\* the data_type the user gives an input of the Inline node
UserTypes == {"", "float", "int"}

NoLinks == [id \in {} |-> [data_type |-> "", array_size |-> 0]]
NoCall == [called |-> FALSE]

\* the node after malt_init
NodeCreated(v) ==
    /\ variant = v
    /\ inputs = CASE v = "MaltInlineNode" ->
                        setup(<<>>, InlineInputs(<<>>, NoLinks), 1).sockets
                  [] v = "MaltArrayIndexNode" ->
                        setup(<<>>, <<Entry("array", "", 1), Entry("index", "int", 0)>>, 1).sockets
                  [] OTHER -> <<>>
    /\ outputs = CASE v = "MaltInlineNode" ->
                        setup(<<>>, <<Entry("result", "", 0)>>, 2).sockets
                   [] v = "MaltArrayIndexNode" ->
                        setup(<<>>, <<Entry("element", "", 0)>>, 3).sockets
                   [] OTHER -> <<>>
    /\ next_id = Len(inputs) + Len(outputs) + 1
    /\ socket_links = NoLinks
    /\ last_call = NoCall

\* an Inline node as a saved file holds it after the user has typed the
\* inputs a to g one by one: malt_update has revealed h, the last letter
InlineNodeLoaded ==
    /\ variant = "MaltInlineNode"
    /\ inputs = [i \in 1..Len(Letters) |->
                    [id |-> i, name |-> Letters[i],
                     data_type |-> IF i < Len(Letters) THEN "float" ELSE "",
                     array_size |-> 0]]
    /\ outputs = <<[id |-> Len(Letters) + 1, name |-> "result",
                    data_type |-> "", array_size |-> 0]>>
    /\ next_id = Len(Letters) + 2
    /\ socket_links = NoLinks
    /\ last_call = NoCall

\* the links of the sockets that are left: Blender removes a socket's links
\* with the socket
LinksOf(lnks, ins, outs) == [id \in DOMAIN lnks \cap (Ids(ins) \cup Ids(outs)) |-> lnks[id]]

\* MaltNode.setup_sockets(new_inputs, new_outputs), lines 547-548, on the
\* node with inputs ins; a holds the inputs and b the outputs it leaves
SocketsSetUp(ins, new_inputs, new_outputs, a, b) ==
    /\ b.fresh <= MaxIds + 1 \/ b.fresh = next_id
    /\ inputs' = a.sockets
    /\ outputs' = b.sockets
    /\ next_id' = b.fresh
    /\ socket_links' = LinksOf(socket_links, a.sockets, b.sockets)
    /\ last_call' = [called |-> TRUE, inputs |-> ins, outputs |-> outputs,
                     links |-> socket_links,
                     new_inputs |-> new_inputs, new_outputs |-> new_outputs]
    /\ UNCHANGED variant

setup_outputs(ins, new_inputs, new_outputs, a) ==
    SocketsSetUp(ins, new_inputs, new_outputs, a, setup(outputs, new_outputs, a.fresh))

setup_sockets(ins, new_inputs, new_outputs) ==
    setup_outputs(ins, new_inputs, new_outputs, setup(ins, new_inputs, next_id))

\* malt_setup of a node whose function or struct has changed
SetupSockets(new_inputs, new_outputs) ==
    /\ variant = "MaltFunctionNode"
    /\ setup_sockets(inputs, new_inputs, new_outputs)
    /\ UNCHANGED <<tree_vars, transpiler_vars, library_vars>>

\* MaltInlineNode.malt_update on the node with inputs ins
InlineMaltUpdate(ins) ==
    setup_sockets(ins, InlineInputs(ins, socket_links), InlineOutputs(outputs, socket_links))

\* node.update() of the Inline node
InlineUpdate ==
    /\ variant = "MaltInlineNode"
    /\ InlineMaltUpdate(inputs)
    /\ UNCHANGED <<tree_vars, transpiler_vars, library_vars>>

\* the inputs of the Inline node the user types or links: the first
\* MaxInputs ones, and the last one of a node that shows all its letters
Editable(i) ==
    IF Len(inputs) < Len(Letters) THEN i <= MaxInputs ELSE i = Len(Letters)

\* The user sets the data_type of input i of the Inline node (draw_socket):
\* on_type_update, on_socket_update, then node.update()
SocketTypeUpdate(i, type) ==
    /\ variant = "MaltInlineNode"
    /\ i \in 1..Len(inputs) /\ Editable(i)
    /\ inputs[i].data_type # type
    /\ InlineMaltUpdate([inputs EXCEPT ![i].data_type = type])
    /\ UNCHANGED <<tree_vars, transpiler_vars, library_vars>>

\* node.update() of the ArrayIndex node
ArrayIndexUpdate ==
    /\ variant = "MaltArrayIndexNode"
    /\ setup_sockets(inputs, ArrayIndexInputs(inputs, socket_links),
                     ArrayIndexOutputs(inputs, socket_links))
    /\ UNCHANGED <<tree_vars, transpiler_vars, library_vars>>

\* The user links socket i of the inputs (or of the outputs) to another
\* node's socket, or removes the link.
SetLink(sockets, i, other) ==
    /\ i \in 1..Len(sockets)
    /\ ~Linked(sockets[i], socket_links)
    /\ socket_links' = [id \in DOMAIN socket_links \cup {sockets[i].id} |->
                           IF id = sockets[i].id THEN other ELSE socket_links[id]]
    /\ last_call' = NoCall
    /\ UNCHANGED <<variant, inputs, outputs, next_id>>
    /\ UNCHANGED <<tree_vars, transpiler_vars, library_vars>>

LinkInput(i, other) ==
    /\ variant = "MaltInlineNode" => Editable(i)
    /\ SetLink(inputs, i, other)

LinkOutput(i, other) == SetLink(outputs, i, other)

Unlink(id) ==
    /\ id \in DOMAIN socket_links
    /\ socket_links' = [k \in DOMAIN socket_links \ {id} |-> socket_links[k]]
    /\ last_call' = NoCall
    /\ UNCHANGED <<variant, inputs, outputs, next_id>>
    /\ UNCHANGED <<tree_vars, transpiler_vars, library_vars>>

(***************************************************************************)
(* get_source_code of the Inline and ArrayIndex nodes, on the node seen    *)
(* apart: ins, outs are its sockets and lnks their links.                  *)
(***************************************************************************)
\* self.get_source_name(), of the name malt_init gives the node
SourceName ==
    CASE variant = "MaltInlineNode"     -> "_InlineCode"
      [] variant = "MaltArrayIndexNode" -> "_ArrayIndex"
      [] OTHER                          -> "_Function"

\* linked.get_source_reference(), linked being a socket of another node
OtherReference(other) == [ref |-> "other", node |-> "", name |-> "", socket |-> other]

\* MaltInlineNode / MaltArrayIndexNode.get_source_socket_reference:
\* '{}_0_{}'.format(self.get_source_name(), socket.name), whatever the transpiler
FormatReference(socket) == Ref("format", SourceName, socket.name)

\* `socket.get_source_global_reference()`, replaced by
\* `socket.get_linked().get_source_reference()` if socket.get_linked()
LinkedOrGlobal(socket, lnks) ==
    IF Linked(socket, lnks) THEN OtherReference(lnks[socket.id])
    ELSE global_reference(SourceName, socket.name)

\* '{}[{}]'.format(array, index)
IndexExpression(array, index) == [ref |-> "index", node |-> "", name |-> "",
                                  array |-> array, index |-> index]

\* MaltArrayIndexNode.get_source_code; array.get_linked() is None for an
\* unlinked array, and None has no get_source_reference (AttributeError)
ArrayIndexSourceCode(ins, outs, lnks) ==
    IF ~Linked(Named(ins, "array"), lnks) THEN Raised
    ELSE Code(declaration(pipeline, Named(outs, "element").data_type,
                          Named(outs, "element").array_size,
                          FormatReference(Named(outs, "element")),
                          IndexExpression(OtherReference(lnks[Named(ins, "array").id]),
                                          LinkedOrGlobal(Named(ins, "index"), lnks))))

\* the code property of the Inline node, as the user may have typed it
InlineCodes == {"", "a + b"}

\* a variant of lines 872-876 that declares the inputs without a type too
InlineInputAlways(input, lnks) ==
    declaration(pipeline, input.data_type, input.array_size,
                Ref("name", "", input.name), LinkedOrGlobal(input, lnks))

\* MaltInlineNode.get_source_code, lines 872-876: one iteration of the loop
InlineInput(input, lnks) ==
    IF input.data_type # ""
    THEN declaration(pipeline, input.data_type, input.array_size,
                     Ref("name", "", input.name), LinkedOrGlobal(input, lnks))
    ELSE <<>>

\* lines 877-878
InlineAsignment(outs, code) ==
    IF code # ""
    THEN asignment(pipeline, FormatReference(Named(outs, "result")),
                   [ref |-> "code", node |-> "", name |-> code])
    ELSE <<>>

\* MaltInlineNode.get_source_code, code being self.code
InlineSourceCode(ins, outs, lnks, code) ==
    Code(declaration(pipeline, Named(outs, "result").data_type,
                     Named(outs, "result").array_size,
                     FormatReference(Named(outs, "result")), NoneRef)
         \o scoped(pipeline,
                ConcatAll([i \in 1..Len(ins) |-> InlineInput(ins[i], lnks)])
                \o InlineAsignment(outs, code)))

(***************************************************************************)
(* The state machine of the tree.                                          *)
(***************************************************************************)
IoTypes == {"IO1", "IO2"}

Init ==
    /\ disable_updates = FALSE
    /\ node_disable_updates = [n \in MaltNodes |-> FALSE]
    /\ links = <<>>
    /\ pipeline \in {"none", "GLSL", "Python"}
    /\ library \in BOOLEAN
    /\ io_type \in {[Out1 |-> "IO1", Out2 |-> t] : t \in IoTypes}
    /\ stack = <<>>
    /\ executed = {}
    /\ failed = {}
    /\ NodeCreated("MaltFunctionNode")
    /\ TranspilerAtRest
    /\ LibrariesAtRest

Idle == stack = <<>>

\* Blender fires update callbacks from inside a call that has just changed
\* the tree's links
CallbackPoint == stack # <<>> /\ Len(stack) < MaxDepth /\ Top.notify

\* a variant of lines 140-141 without the test of disable_updates
UpdateEntersDespiteFlag == ~NoGraph

\* MaltTree.update, lines 139-146: the two early returns, then the flag
UpdateEnters == ~disable_updates /\ ~NoGraph

CallTreeUpdate(stk) ==
    /\ disable_updates' = (disable_updates \/ UpdateEnters)
    /\ stack' = IF UpdateEnters THEN Append(stk, Frame("update", "links", "", "")) ELSE stk

\* MaltNode._disable_updates_wrapper, lines 493-495
CallWrapper(stk, n, fn) ==
    /\ disable_updates' = TRUE
    /\ node_disable_updates' = [node_disable_updates EXCEPT ![n] = TRUE]
    /\ stack' = Append(stk, Frame("wrapper", "call", n, fn))

RemoveAt(seq, i) == SubSeq(seq, 1, i - 1) \o SubSeq(seq, i + 1, Len(seq))

\* The user draws a link; Blender then calls the tree's update.
AddLink(w) ==
    /\ Idle
    /\ Len(links) < MaxLinks
    /\ \A i \in 1..Len(links) : links[i].to # w.to
    /\ links' = Append(links, w)
    /\ CallTreeUpdate(stack)
    /\ UNCHANGED <<socket_vars, transpiler_vars, library_vars>>
    /\ UNCHANGED <<node_disable_updates, pipeline, library, io_type, executed, failed>>

\* The user removes a link; Blender then calls the tree's update.
RemoveLink(i) ==
    /\ Idle
    /\ i \in 1..Len(links)
    /\ links' = RemoveAt(links, i)
    /\ CallTreeUpdate(stack)
    /\ UNCHANGED <<socket_vars, transpiler_vars, library_vars>>
    /\ UNCHANGED <<node_disable_updates, pipeline, library, io_type, executed, failed>>

\* The user selects the tree's graph_type (the property has no update callback).
SetGraphType(p) ==
    /\ Idle
    /\ p # pipeline
    /\ pipeline' = p
    /\ UNCHANGED <<socket_vars, transpiler_vars, library_vars>>
    /\ UNCHANGED <<disable_updates, node_disable_updates, links, library, io_type,
                   stack, executed, failed>>

\* The library file appears or disappears.
SetLibrary ==
    /\ Idle
    /\ library' = ~library
    /\ UNCHANGED <<socket_vars, transpiler_vars, library_vars>>
    /\ UNCHANGED <<disable_updates, node_disable_updates, links, pipeline, io_type,
                   stack, executed, failed>>

\* tree.update() called by the add-on (setup_node_trees, track_library_changes,
\* MaltInlineNode.code_update) or by Blender from inside a call.
TreeUpdate ==
    /\ Idle \/ CallbackPoint
    /\ CallTreeUpdate(stack)
    /\ UNCHANGED <<socket_vars, transpiler_vars, library_vars>>
    /\ UNCHANGED <<node_disable_updates, links, pipeline, library, io_type, executed, failed>>

\* MaltNode.update (lines 510-513), called by Blender on a change of the tree.
NodeUpdate(n) ==
    /\ Idle \/ CallbackPoint
    /\ IF node_disable_updates[n]
       THEN UNCHANGED <<disable_updates, node_disable_updates, stack>>
       ELSE CallWrapper(stack, n, "malt_update")
    /\ UNCHANGED <<socket_vars, transpiler_vars, library_vars>>
    /\ UNCHANGED <<links, pipeline, library, io_type, executed, failed>>

\* MaltTree.reload_nodes, line 126
ReloadNodes ==
    /\ Idle
    /\ disable_updates' = TRUE
    /\ stack' = <<Frame("reload", "setup", "", "")>>
    /\ executed' = {}
    /\ failed' = {}
    /\ UNCHANGED <<socket_vars, transpiler_vars, library_vars>>
    /\ UNCHANGED <<node_disable_updates, links, pipeline, library, io_type>>

\* What the iterator of `for link in self.links` does next after
\* self.links.remove(link) at position it, n links being left.  The loop
\* changes the collection it iterates: the iterator may go on with the link
\* that followed the removed one (now at it), step over it (it + 1), or stop.
IteratorAfterRemove(it, n) == {it, it + 1, n + 1} \cap (1..(n + 1))

\* the test of line 150 raises on a socket without data_type (a reroute's)
LinkTestRaises(link) == ~IsMaltSocket(link.from) \/ ~IsMaltSocket(link.to)

\* lines 150-151
LinkMismatch(link) ==
    \/ DataType(link.from) # DataType(link.to)
    \/ ArraySize(link.from) # ArraySize(link.to)

\* MaltTree.update, lines 148-154: one iteration of the normalization loop
UpdateNormalize ==
    /\ stack # <<>> /\ Top.kind = "update" /\ Top.pc = "links"
    /\ IF Top.it > Len(links)
       THEN /\ links' = links
            /\ stack' = [stack EXCEPT ![Len(stack)].pc = "source",
                                      ![Len(stack)].notify = FALSE]
       ELSE IF LinkTestRaises(links[Top.it]) \/ ~LinkMismatch(links[Top.it])
            THEN /\ links' = links
                 /\ stack' = [stack EXCEPT ![Len(stack)].it = @ + 1,
                                           ![Len(stack)].notify = FALSE]
            ELSE /\ links' = RemoveAt(links, Top.it)
                 /\ \E next \in IteratorAfterRemove(Top.it, Len(links) - 1) :
                        stack' = [stack EXCEPT ![Len(stack)].it = next,
                                               ![Len(stack)].notify = TRUE]
    /\ UNCHANGED <<socket_vars, transpiler_vars, library_vars>>
    /\ UNCHANGED <<disable_updates, node_disable_updates, pipeline, library, io_type,
                   executed, failed>>

\* MaltTree.update, lines 156-164, source being what get_generated_source
\* returned and io_ok telling whether the directory and the file could be written
Written(f, source, io_ok) ==
    IF ~source.ok THEN UpdateOnRaise(f, "get_generated_source")
    ELSE IF ~io_ok THEN UpdateOnRaise([f EXCEPT !.source = source], "io")
    ELSE [f EXCEPT !.pc = "reset", !.source = source, !.wrote = TRUE]

\* MaltTree.update, lines 156-164: generate the source and write it
UpdateGenerate ==
    /\ stack # <<>> /\ Top.kind = "update" /\ Top.pc = "source"
    /\ \E io_ok \in BOOLEAN :
          stack' = [stack EXCEPT ![Len(stack)] = Written(@, get_generated_source, io_ok)]
    /\ UNCHANGED <<socket_vars, transpiler_vars, library_vars>>
    /\ UNCHANGED <<disable_updates, node_disable_updates, links, pipeline, library,
                   io_type, executed, failed>>

\* MaltTree.update, line 168
UpdateReset ==
    /\ stack # <<>> /\ Top.kind = "update" /\ Top.pc = "reset"
    /\ disable_updates' = FALSE
    /\ stack' = [stack EXCEPT ![Len(stack)].pc = "return"]
    /\ UNCHANGED <<socket_vars, transpiler_vars, library_vars>>
    /\ UNCHANGED <<node_disable_updates, links, pipeline, library, io_type, executed, failed>>

\* MaltTree.reload_nodes, lines 128-133: one iteration of one of the two loops
ReloadStep ==
    /\ stack # <<>> /\ Top.kind = "reload" /\ Top.pc \in {"setup", "update"}
    /\ IF Top.it > Len(Nodes)
       THEN /\ stack' = [stack EXCEPT ![Len(stack)].pc =
                                          IF @ = "setup" THEN "update" ELSE "reset",
                                      ![Len(stack)].it = 1]
            /\ UNCHANGED <<disable_updates, node_disable_updates>>
       ELSE LET node == Nodes[Top.it]
                rest == [stack EXCEPT ![Len(stack)].it = @ + 1]
            IN  IF ~IsMaltNode(node)
                THEN stack' = rest /\ UNCHANGED <<disable_updates, node_disable_updates>>
                ELSE IF Top.pc = "setup"
                THEN CallWrapper(rest, node, "malt_setup")          \* MaltNode.setup
                ELSE IF node_disable_updates[node]                  \* MaltNode.update
                THEN stack' = rest /\ UNCHANGED <<disable_updates, node_disable_updates>>
                ELSE CallWrapper(rest, node, "malt_update")
    /\ UNCHANGED <<socket_vars, transpiler_vars, library_vars>>
    /\ UNCHANGED <<links, pipeline, library, io_type, executed, failed>>

\* MaltTree.reload_nodes, line 137
ReloadReset ==
    /\ stack # <<>> /\ Top.kind = "reload" /\ Top.pc = "reset"
    /\ disable_updates' = FALSE
    /\ stack' = [stack EXCEPT ![Len(stack)].pc = "return"]
    /\ UNCHANGED <<socket_vars, transpiler_vars, library_vars>>
    /\ UNCHANGED <<node_disable_updates, links, pipeline, library, io_type, executed, failed>>

\* malt_setup raises when the node's struct / function / graph IO is found
\* neither in the pipeline graph nor in the library; malt_update of these
\* node variants is MaltNode's, which does nothing
FunctionRaises(n, fn) ==
    /\ fn = "malt_setup"
    /\ IF Kind(n) = "MaltStructNode" THEN NoGraph ELSE get_function_raises(n)

\* MaltNode._disable_updates_wrapper, lines 496-500: function()
WrapperRun ==
    /\ stack # <<>> /\ Top.kind = "wrapper" /\ Top.pc = "call"
    /\ stack' = [stack EXCEPT ![Len(stack)] =
                    IF FunctionRaises(@.node, @.fn) THEN WrapperOnRaise(@, @.fn)
                    ELSE [@ EXCEPT !.pc = "reset"]]
    /\ IF stack[1].kind = "reload"
       THEN /\ executed' = executed \cup {<<Top.node, Top.fn>>}
            /\ failed' = IF FunctionRaises(Top.node, Top.fn)
                         THEN failed \cup {<<Top.node, Top.fn>>} ELSE failed
       ELSE UNCHANGED <<executed, failed>>
    /\ UNCHANGED <<socket_vars, transpiler_vars, library_vars>>
    /\ UNCHANGED <<disable_updates, node_disable_updates, links, pipeline, library, io_type>>

\* MaltNode._disable_updates_wrapper, lines 501-502
WrapperReset ==
    /\ stack # <<>> /\ Top.kind = "wrapper" /\ Top.pc = "reset"
    /\ disable_updates' = FALSE
    /\ node_disable_updates' = [node_disable_updates EXCEPT ![Top.node] = FALSE]
    /\ stack' = [stack EXCEPT ![Len(stack)].pc = "return"]
    /\ UNCHANGED <<socket_vars, transpiler_vars, library_vars>>
    /\ UNCHANGED <<links, pipeline, library, io_type, executed, failed>>

\* A call returns to its caller; an exception it did not catch goes on there.
Return ==
    /\ stack # <<>> /\ Top.pc = "return"
    /\ stack' = IF Top.exc /\ Len(stack) > 1
                THEN [Pop(stack) EXCEPT ![Len(stack) - 1] = OnRaise(@, Top.raised)]
                ELSE Pop(stack)
    /\ IF Top.kind = "reload"
       THEN executed' = {} /\ failed' = {}
       ELSE UNCHANGED <<executed, failed>>
    /\ UNCHANGED <<socket_vars, transpiler_vars, library_vars>>
    /\ UNCHANGED <<disable_updates, node_disable_updates, links, pipeline, library, io_type>>

Next ==
    \/ \E w \in Wires : AddLink(w)
    \/ \E i \in 1..MaxLinks : RemoveLink(i)
    \/ \E p \in {"none", "GLSL", "Python"} : SetGraphType(p)
    \/ SetLibrary
    \/ TreeUpdate
    \/ \E n \in MaltNodes : NodeUpdate(n)
    \/ ReloadNodes
    \/ UpdateNormalize
    \/ UpdateGenerate
    \/ UpdateReset
    \/ ReloadStep
    \/ ReloadReset
    \/ WrapperRun
    \/ WrapperReset
    \/ Return

Spec == Init /\ [][Next]_vars

(***************************************************************************)
(* The state machine of one node's sockets, its tree at rest.              *)
(***************************************************************************)
TreeAtRest ==
    /\ disable_updates = FALSE
    /\ node_disable_updates = [n \in MaltNodes |-> FALSE]
    /\ links = <<>>
    /\ pipeline = "GLSL"
    /\ library = FALSE
    /\ io_type = [Out1 |-> "IO1", Out2 |-> "IO2"]
    /\ stack = <<>>
    /\ executed = {}
    /\ failed = {}

InitSockets ==
    /\ TreeAtRest
    /\ TranspilerAtRest
    /\ LibrariesAtRest
    /\ \/ \E v \in {"MaltFunctionNode", "MaltInlineNode", "MaltArrayIndexNode"} :
             NodeCreated(v)
       \/ InlineNodeLoaded

NextSockets ==
    \/ \E new_inputs \in InputSchemas, new_outputs \in OutputSchemas :
          SetupSockets(new_inputs, new_outputs)
    \/ InlineUpdate
    \/ \E i \in 1..Len(Letters), type \in UserTypes : SocketTypeUpdate(i, type)
    \/ ArrayIndexUpdate
    \/ \E i \in 1..Len(Letters), other \in OtherSockets : LinkInput(i, other)
    \/ \E i \in 1..MaxIds, other \in OtherSockets : LinkOutput(i, other)
    \/ \E id \in DOMAIN socket_links : Unlink(id)

SpecSockets == InitSockets /\ [][NextSockets]_vars

(***************************************************************************)
(* The state machine of one transpiler: its functions called on their own. *)
(***************************************************************************)
Languages == {"GLSL", "Python"}

\* Node names (bpy Node.name) and socket names the calls are made with.
NodeNames == { <<"a">>, <<"b">>, <<"_", "a">>, <<"a", " ", "b">>,
               <<"a", "_", "0", "_", "b">>, <<"a", ".", "0", ".", "b">> }
SocketNames == { <<"b">>, <<"c">>, <<"b", "_", "0", "_", "c">>, <<"a", "_", "b">> }

\* A socket of a node asks the transpiler for its two references, and so
\* does a second socket: socket.get_source_global_reference() and the
\* parameter_reference of get_source_socket_reference.
References(lang, node, socket, other_node, other_socket) ==
    /\ request' = [fn |-> "references", lang |-> lang,
                   node_name |-> get_source_name(node), name |-> socket,
                   other_node_name |-> get_source_name(other_node),
                   other_name |-> other_socket]
    /\ reply' = [parameter |-> parameter_reference_text(lang, get_source_name(node), socket),
                 global |-> global_reference_text(lang, get_source_name(node), socket),
                 other_parameter |->
                     parameter_reference_text(lang, get_source_name(other_node), other_socket),
                 other_global |->
                     global_reference_text(lang, get_source_name(other_node), other_socket)]
    /\ UNCHANGED <<tree_vars, socket_vars, library_vars>>

\* a function has at most MaxParameters parameters
MaxParameters == 2

ParameterNames == <<"p", "q", "r", "s">>

\* the reflected functions the calls are made for: their return type and
\* the io of their parameters vary
Signatures ==
    { [name |-> "h", type |-> type,
       parameters |-> [i \in 1..Len(ios) |-> Parameter(ParameterNames[i], "float", 0, ios[i])]] :
         type \in {"void", "float", "sampler2D"},
         ios \in UNION {[1..k -> {"in", "out", "inout"}] : k \in 0..MaxParameters} }

\* MaltFunctionNode.get_source_code, lines 733-741: the initializations it
\* hands to call, None for the parameters that are out
Initializations(function) ==
    [i \in 1..Len(function.parameters) |->
        IF function.parameters[i].io \in {"", "in", "inout"}
        THEN global_reference("_h", function.parameters[i].name)
        ELSE NoneRef]

\* A function node named 'h' asks the transpiler for the call of its function.
Call(lang, function) ==
    /\ request' = [fn |-> "call", lang |-> lang, function |-> function, name |-> "_h",
                   parameters |-> Initializations(function)]
    /\ reply' = call(lang, function, "_h", Initializations(function))
    /\ UNCHANGED <<tree_vars, socket_vars, library_vars>>

InitTranspiler ==
    /\ TreeAtRest
    /\ NodeCreated("MaltFunctionNode")
    /\ TranspilerAtRest
    /\ LibrariesAtRest

NextTranspiler ==
    \/ \E lang \in Languages, node \in NodeNames, socket \in SocketNames,
          other_node \in NodeNames, other_socket \in SocketNames :
          References(lang, node, socket, other_node, other_socket)
    \/ \E lang \in Languages, function \in Signatures : Call(lang, function)

SpecTranspiler == InitTranspiler /\ [][NextTranspiler]_vars

(***************************************************************************)
(* The library cache: track_library_changes, polled by a timer and called  *)
(* by setup_node_trees, over trees that name a library file each.          *)
(***************************************************************************)
Trees == {"T1", "T2"}

\* the library files a tree can name, and every file there is: the files
\* exist throughout, as get_library_path returns None for a missing one
LibraryPaths == {"A", "B"}
Files == {"A", "B", "C"}

\* the files a library's reflection lists in 'paths': the library itself and
\* what it includes
Dependencies == [A |-> {"A", "C"}, B |-> {"B"}]

\* the readings the clock takes
MaxTime == 2

\* the value of an entry not yet reflected
None == [resolved |-> FALSE]

\* what reflect_source_libraries returns for one path
Reflection(path) == [resolved |-> TRUE, paths |-> Dependencies[path]]

\* the cache after the purge: an entry per path some tree names
new_dic_keeping_entries(libraries, paths) ==
    [path \in DOMAIN libraries \cup ({paths[tree] : tree \in Trees} \ {""}) |->
        IF path \in DOMAIN libraries THEN libraries[path] ELSE None]

new_dic(libraries, paths) ==
    [path \in {paths[tree] : tree \in Trees} \ {""} |->
        IF path \in DOMAIN libraries THEN libraries[path] ELSE None]

\* the paths the scan collects
needs_update(libraries, stamps, timestamp) ==
    {path \in DOMAIN libraries :
        \/ ~libraries[path].resolved
        \/ \E sub_path \in libraries[path].paths : stamps[sub_path] > timestamp}

\* the trees the poll recompiles
EveryLibraryTree(paths, needed, disable_tree_updates) ==
    IF disable_tree_updates THEN {}
    ELSE {tree \in Trees : paths[tree] # ""}

UpdatedTrees(paths, needed, disable_tree_updates) ==
    IF disable_tree_updates THEN {}
    ELSE {tree \in Trees : paths[tree] # "" /\ paths[tree] \in needed}

\* The clock advances.
Tick ==
    /\ clock < MaxTime
    /\ clock' = clock + 1
    /\ UNCHANGED <<engine, library_path, LIBRARIES, TIMESTAMP, mtime, unreflected, poll>>
    /\ UNCHANGED <<tree_vars, socket_vars, transpiler_vars>>

\* A file is saved: the file system stamps it with the reading of the clock.
Modify(file) ==
    /\ mtime' = [mtime EXCEPT ![file] = clock]
    /\ unreflected' = unreflected \cup {path \in LibraryPaths : file \in Dependencies[path]}
    /\ UNCHANGED <<engine, library_path, LIBRARIES, TIMESTAMP, clock, poll>>
    /\ UNCHANGED <<tree_vars, socket_vars, transpiler_vars>>

\* The user edits the tree's library_source in the panel; the property has no
\* update callback.
SetLibrarySource(tree, path) ==
    /\ poll.pc = "idle"
    /\ library_path[tree] # path
    /\ library_path' = [library_path EXCEPT ![tree] = path]
    /\ poll' = NoPoll
    /\ UNCHANGED <<engine, LIBRARIES, TIMESTAMP, clock, mtime, unreflected>>
    /\ UNCHANGED <<tree_vars, socket_vars, transpiler_vars>>

\* The user changes the scene's render engine.
SetEngine ==
    /\ poll.pc = "idle"
    /\ engine' = ~engine
    /\ UNCHANGED <<library_path, LIBRARIES, TIMESTAMP, clock, mtime, unreflected, poll>>
    /\ UNCHANGED <<tree_vars, socket_vars, transpiler_vars>>

\* track_library_changes up to the scan: the engine check, the purge, and the
\* scan of the files' modification times; with nothing to update the poll
\* ends here.
PollScan(force_update, disable_tree_updates) ==
    /\ poll.pc = "idle"
    /\ IF ~engine /\ ~force_update
       THEN /\ poll' = NoPoll
            /\ UNCHANGED <<LIBRARIES, TIMESTAMP>>
       ELSE /\ LIBRARIES' = new_dic(LIBRARIES, library_path)
            /\ poll' = [pc |-> IF needs_update(LIBRARIES', mtime, TIMESTAMP) = {}
                               THEN "idle" ELSE "reflect",
                        passed |-> TRUE,
                        start_time |-> clock,
                        needs_update |-> needs_update(LIBRARIES', mtime, TIMESTAMP),
                        disable_tree_updates |-> disable_tree_updates,
                        dropped |-> DOMAIN LIBRARIES \ DOMAIN LIBRARIES',
                        added |-> DOMAIN LIBRARIES' \ DOMAIN LIBRARIES,
                        requests |-> << >>,
                        updated |-> {}]
            /\ TIMESTAMP' = IF poll'.pc = "idle" THEN clock ELSE TIMESTAMP
    /\ UNCHANGED <<engine, library_path, clock, mtime, unreflected>>
    /\ UNCHANGED <<tree_vars, socket_vars, transpiler_vars>>

\* The one call of reflect_source_libraries, and the cache taking its
\* results.
PollReflect ==
    /\ poll.pc = "reflect"
    /\ LIBRARIES' = [path \in DOMAIN LIBRARIES |->
                        IF path \in poll.needs_update THEN Reflection(path)
                        ELSE LIBRARIES[path]]
    /\ unreflected' = unreflected \ poll.needs_update
    /\ poll' = [poll EXCEPT !.pc = "update",
                            !.requests = Append(@, poll.needs_update)]
    /\ UNCHANGED <<engine, library_path, TIMESTAMP, clock, mtime>>
    /\ UNCHANGED <<tree_vars, socket_vars, transpiler_vars>>

\* The updates of the trees, and the end of the poll.
PollFinish ==
    /\ poll.pc = "update"
    /\ poll' = [poll EXCEPT !.pc = "idle",
                            !.updated = UpdatedTrees(library_path, poll.needs_update,
                                                     poll.disable_tree_updates)]
    /\ TIMESTAMP' = poll.start_time
    /\ UNCHANGED <<engine, library_path, LIBRARIES, clock, mtime, unreflected>>
    /\ UNCHANGED <<tree_vars, socket_vars, transpiler_vars>>

InitLibraries ==
    /\ TreeAtRest
    /\ NodeCreated("MaltFunctionNode")
    /\ TranspilerAtRest
    /\ LibrariesAtRest

NextLibraries ==
    \/ Tick
    \/ \E file \in Files : Modify(file)
    \/ \E tree \in Trees, path \in LibraryPaths \cup {""} : SetLibrarySource(tree, path)
    \/ SetEngine
    \/ PollScan(FALSE, FALSE)
    \/ PollScan(TRUE, TRUE)
    \/ PollReflect
    \/ PollFinish

SpecLibraries == InitLibraries /\ [][NextLibraries]_vars

(***************************************************************************)
(* Properties of the passes: MaltTree.update and MaltTree.reload_nodes.    *)
(***************************************************************************)
Frames == {stack[i] : i \in 1..Len(stack)}

\* the frames of the tree's passes
Passes == {f \in Frames : f.kind \in {"update", "reload"}}

\* C1: a pass of MaltTree.update (entered with a pipeline graph and the flag
\* False) or of MaltTree.reload_nodes that returns does so normally, not by
\* an exception, and with disable_updates = False, whatever raised inside it.
C1_PassReturnsWithFlagReset ==
    \A f \in Passes : f.pc = "return" => ~disable_updates /\ ~f.exc

\* C1, its case: an update whose get_generated_source raised has returned
C1_UpdateRaisedAndReturned ==
    \E f \in Passes :
        f.kind = "update" /\ f.pc = "return" /\ f.raised = "get_generated_source"

\* C2 as the spec states it: from the moment a pass has set disable_updates
\* until it clears it at its end, the flag is True in every state.
C2_FlagHeldThroughoutPass ==
    \A f \in Passes : f.pc # "return" => disable_updates

\* C3 as the spec states it: once the normalization loop of update is over,
\* every remaining link between MaltSockets joins sockets of equal data_type
\* and equal array_size.
C3_RemainingLinksMatch ==
    \A f \in Passes :
        f.kind = "update" /\ f.pc \in {"source", "reset", "return"} =>
            \A i \in 1..Len(links) :
                IsMaltSocket(links[i].from) /\ IsMaltSocket(links[i].to) =>
                    ~LinkMismatch(links[i])

\* C14: a call of MaltTree.update made from inside another call while
\* disable_updates is True returns without effect: the links, the calls in
\* progress (no source generated, no file written) and the flag, which
\* stays True, are as they were.
C14_NestedUpdateHasNoEffect ==
    [][(disable_updates /\ CallbackPoint /\ TreeUpdate)
          => (links' = links /\ stack' = stack /\ disable_updates' = TRUE)]_vars

\* C14, its case: Blender may call update from inside a pass that has just
\* removed a link, the flag being True
C14_CallbackWhileDisabled ==
    disable_updates /\ CallbackPoint /\ Top.kind = "update" /\ ~NoGraph

(***************************************************************************)
(* Properties of the generated source.                                     *)
(***************************************************************************)
\* the nodes with a path of at most k links into a node of S
RECURSIVE UpstreamOf(_, _)
UpstreamOf(S, k) ==
    IF k = 0 THEN S
    ELSE UpstreamOf(S \cup {links[i].from.node :
                               i \in {j \in 1..Len(links) : links[j].to.node \in S}},
                    k - 1)

\* some exit node is reachable from n through linked inputs
ReachesExit(n) == n \in UpstreamOf(Elems(output_nodes), Len(Nodes))

\* n is e or upstream of e
Reaches(n, e) == n \in UpstreamOf({e}, Len(Nodes))

\* update has generated the source of the tree as it stands and written it
Generated == stack # <<>> /\ Top.kind = "update" /\ Top.pc = "reset" /\ Top.wrote

\* the nodes a reference, a statement, a node's block mention
NodesOfRef(r) ==
    ({r.node} \cup (IF "args" \in DOMAIN r
                    THEN {r.args[i].node : i \in 1..Len(r.args)} ELSE {})) \ {""}

NodesOfStatement(st) ==
    (IF "name" \in DOMAIN st THEN NodesOfRef(st.name) ELSE {})
    \cup (IF "value" \in DOMAIN st THEN NodesOfRef(st.value) ELSE {})

NodesOfBlocks(blocks) ==
    UNION {({blocks[i].node} \ {""})
           \cup UNION {NodesOfStatement(blocks[i].code[j]) : j \in 1..Len(blocks[i].code)}
           : i \in 1..Len(blocks)}

\* the nodes that contribute to what get_generated_source hands over
Contributors(src) ==
    NodesOfBlocks(src.GLOBAL) \cup UNION {NodesOfBlocks(src.shader[k]) : k \in DOMAIN src.shader}

\* the sources get_generated_source has returned to the updates in progress
\* (the tree is as it was when it returned them)
Sources == {f.source : f \in {g \in Passes : g.source.ok}}

\* C4: in what get_generated_source returns, every node that has a block in
\* a per-boundary entry or in GLOBAL, or is mentioned by a statement of one,
\* has a path of links to an exit node: a node without one contributes nothing.
C4_UnreachableNodesContributeNothing ==
    \A src \in Sources : \A n \in Contributors(src) : ReachesExit(n)

\* C4, its case: a source was written for a tree in which a wired MaltNode
\* reaches no exit while another node does
C4_WroteWithUnreachableNode ==
    /\ Generated
    /\ \E n \in MaltNodes :
          /\ ~ReachesExit(n)
          /\ \E i \in 1..Len(links) : n \in {links[i].from.node, links[i].to.node}
    /\ \E m \in MaltNodes : ~IsOutput(m) /\ ReachesExit(m)

GlobalStatements(src) == ConcatAll([i \in 1..Len(src.GLOBAL) |-> src.GLOBAL[i].code])

\* how many declarations of the global parameter of n's input s GLOBAL holds
Declarations(src, n, s) ==
    Cardinality({i \in 1..Len(GlobalStatements(src)) :
                    /\ GlobalStatements(src)[i].st = "uniform"
                    /\ GlobalStatements(src)[i].name = global_reference(n, s)})

\* how many blocks of node n a block sequence holds
Occurrences(blocks, n) == Cardinality({i \in 1..Len(blocks) : blocks[i].node = n})

ExitNodes == Elems(output_nodes)

\* C6 as the spec states it: GLOBAL declares each touched node's global
\* parameters exactly once, one declaration per unlinked typed input socket,
\* and the node's code is once in the entry of every exit node that reaches it.
C6_OneDeclarationPerUnlinkedInput ==
    \A src \in Sources : \A n \in MaltNodes :
        ReachesExit(n) =>
            /\ \A i \in 1..Len(Inputs(n)) :
                  Declarations(src, n, Inputs(n)[i]) =
                      IF DataType(InputSockets(n)[i]) # "" /\ ~is_linked(InputSockets(n)[i])
                      THEN 1 ELSE 0
            /\ \A e \in ExitNodes :
                  Reaches(n, e) /\ n # e => Occurrences(src.shader[io_type[e]], n) = 1

\* the input s of n is one GLOBAL declares: only the GLSL backend declares
\* globals; the socket resolves to no socket (get_linked() is None); a Struct
\* node declares none for its struct socket and none once its struct input
\* is linked
DeclaresGlobal(n, s) ==
    /\ pipeline = "GLSL"
    /\ DataType(In(n, s)) # ""
    /\ get_linked(In(n, s)) = NoSocket
    /\ Kind(n) = "MaltStructNode" =>
          s # struct_type(n) /\ get_linked(In(n, struct_type(n))) = NoSocket

\* the exit node whose source the entry of io_type k holds: the last one, in
\* the tree's node order, of that io_type
LastExit(k) ==
    Nodes[CHOOSE i \in 1..Len(Nodes) :
            /\ Nodes[i] \in ExitNodes /\ io_type[Nodes[i]] = k
            /\ \A j \in (i + 1)..Len(Nodes) :
                  ~(Nodes[j] \in ExitNodes /\ io_type[Nodes[j]] = k)]

\* C6, amended: in what get_generated_source returns, GLOBAL holds one block
\* of global parameters per touched MaltNode (none for another node), however
\* many exits reach it; the block declares, once each, the inputs of
\* DeclaresGlobal; and the entry of each io_type holds, once each, the code
\* of the nodes that reach the last exit node of that io_type.
C6_GlobalsOncePerTouchedNode ==
    \A src \in Sources :
        /\ DOMAIN src.shader = {io_type[e] : e \in ExitNodes}
        /\ \A n \in MaltNodes :
              /\ Occurrences(src.GLOBAL, n) = IF ReachesExit(n) THEN 1 ELSE 0
              /\ \A i \in 1..Len(Inputs(n)) :
                    Declarations(src, n, Inputs(n)[i]) =
                        IF ReachesExit(n) /\ DeclaresGlobal(n, Inputs(n)[i]) THEN 1 ELSE 0
              /\ \A k \in DOMAIN src.shader :
                    Occurrences(src.shader[k], n) =
                        IF Reaches(n, LastExit(k)) THEN 1 ELSE 0

\* C6, its case: a GLSL source was written for a tree in which one node
\* with an unlinked typed input reaches two exit nodes of different io_type
C6_SharedNodeOfTwoExits ==
    /\ Generated /\ pipeline = "GLSL"
    /\ io_type["Out1"] # io_type["Out2"]
    /\ \E n \in MaltNodes :
          /\ ~IsOutput(n) /\ Reaches(n, "Out1") /\ Reaches(n, "Out2")
          /\ \E i \in 1..Len(Inputs(n)) : DeclaresGlobal(n, Inputs(n)[i])

\* the blocks are a topological order of the nodes that reach e: each of
\* them once and no other node, each after the nodes upstream of it, e last
TopologicalOrder(blocks, e) ==
    /\ blocks # <<>> /\ blocks[Len(blocks)].node = e
    /\ \A n \in MaltNodes : Occurrences(blocks, n) = IF Reaches(n, e) THEN 1 ELSE 0
    /\ \A i, j \in 1..Len(blocks) :
          i # j /\ Reaches(blocks[j].node, blocks[i].node) => j < i

\* C13: in what get_generated_source returns, the entry of each io_type
\* holds the code of the nodes that reach its exit node in a topological
\* order: each of these nodes once, each after every node upstream of it
\* (the nodes linked to its inputs, directly or through reroutes), and the
\* exit node's own code last.
C13_EmissionOrderIsTopological ==
    \A src \in Sources : \A k \in DOMAIN src.shader :
        TopologicalOrder(src.shader[k], LastExit(k))

\* C13, its case: a source was written for a tree in which a node is linked
\* to an input of a second node, which is linked to an input of an exit node
C13_CompiledChain ==
    /\ Generated /\ Top.source.ok
    /\ \E e \in ExitNodes, m, n \in MaltNodes \ ExitNodes :
          /\ m # n
          /\ \E i \in 1..Len(links) : links[i].from.node = m /\ links[i].to.node = e
          /\ \E i \in 1..Len(links) : links[i].from.node = n /\ links[i].to.node = m

\* C7 as the spec states it: when a Function node that reaches an exit has
\* its function neither in the pipeline graph nor in the library, update
\* still generates the source and, the file being writable, writes it.
C7_FailingNodeDoesNotAbort ==
    \A f \in Passes :
        (/\ f.kind = "update" /\ f.pc \in {"reset", "return"} /\ f.raised # "io"
         /\ \E n \in MaltNodes :
               /\ Kind(n) = "MaltFunctionNode"
               /\ ReachesExit(n)
               /\ get_function_raises(n))
        => f.wrote

\* C8: when reload_nodes is past its two loops, every MaltNode of the tree
\* has had its malt_setup and its malt_update run in this pass, whether or
\* not one of them raised for some node.
C8_EveryNodeSetUpAndUpdated ==
    \A f \in Passes :
        f.kind = "reload" /\ f.pc \in {"reset", "return"} =>
            /\ f.raised = ""
            /\ \A n \in MaltNodes :
                  <<n, "malt_setup">> \in executed /\ <<n, "malt_update">> \in executed

\* C8, its case: a reload pass is over in which some node's malt_setup
\* raised and some other node's did not
C8_ReloadOverWithFailedNode ==
    /\ \E f \in Passes : f.kind = "reload" /\ f.pc = "reset"
    /\ failed # {}
    /\ \E n \in MaltNodes : <<n, "malt_setup">> \in executed \ failed

\* the sockets of the tree
Sockets ==
    UNION {{In(n, Inputs(n)[i]) : i \in 1..Len(Inputs(n))}
           \cup {Out(n, Outputs(n)[i]) : i \in 1..Len(Outputs(n))} : n \in NodeSet}

\* C9 as the spec states it: get_linked returns a result (no socket, or a
\* socket) for every socket of every graph, reroute cycles included.
C9_GetLinkedReturns ==
    \A socket \in Sockets : get_linked(socket) # RecursionError

\* C15 as the spec states it: get_source_reference of an input of a
\* non-instantiable type that is linked returns what get_source_reference
\* of the linked socket returns, and of any other socket what
\* get_source_socket_reference of its node returns.
C15_LinkedSamplerTakesLinkedReference ==
    \A socket \in {s \in Sockets : IsMaltSocket(s) /\ get_linked(s) # RecursionError} :
        get_source_reference(socket) =
            IF ~is_instantiable_type(socket) /\ ~socket.out /\ get_linked(socket) # NoSocket
            THEN get_source_reference(get_linked(socket))
            ELSE get_source_socket_reference(socket)

\* C16 as the spec states it: the code of an exit node whose boundary
\* returns a value ends with a result statement; its expression is the
\* linked socket's reference when the 'result' input is linked, and the
\* global reference of the 'result' input itself when it is not.
C16_ResultOfResultInput ==
    \A n \in ExitNodes :
        (IOSourceCode(n).ok /\ get_function(n).type # "void") =>
            /\ IOSourceCode(n).code # <<>>
            /\ IOSourceCode(n).code[Len(IOSourceCode(n).code)] =
                  [st |-> "return",
                   value |-> IF get_linked(In(n, "result")) # NoSocket
                             THEN get_source_reference(get_linked(In(n, "result")))
                             ELSE get_source_global_reference(In(n, "result"))]

\* the member inputs of a Struct node, in the order of the collection
Members(n) == SelectSeq(InputSockets(n), LAMBDA input : input.name # struct_type(n))

\* the assignment to the struct local's member of the value the input takes
MemberAssignment(n, input) ==
    IF get_linked(input) = NoSocket /\ get_linked(In(n, struct_type(n))) # NoSocket
    THEN <<>>
    ELSE <<[st |-> "asignment",
            name |-> Ref("member", n, input.name),
            value |-> IF get_linked(input) # NoSocket
                      THEN get_source_reference(get_linked(input))
                      ELSE get_source_global_reference(input)]>>

\* C19 as the spec states it: the code of a Struct node is the declaration
\* of the struct local, initialized from the linked whole-struct value if
\* and only if that input is linked, followed by the assignments of the
\* members: of the linked ones when the whole-struct input is linked, of
\* all of them when it is not, each from the linked socket's reference if
\* the member is linked and else from the member's global reference.
C19_StructCodeAssignsMembers ==
    \A n \in {m \in MaltNodes : Kind(m) = "MaltStructNode"} :
        StructSourceCode(n).ok =>
            StructSourceCode(n).code =
                declaration(pipeline, struct_type(n), 0, Ref("local", n, ""),
                            IF get_linked(In(n, struct_type(n))) # NoSocket
                            THEN get_source_reference(get_linked(In(n, struct_type(n))))
                            ELSE NoneRef)
                \o ConcatAll([i \in 1..Len(Members(n)) |->
                                 MemberAssignment(n, Members(n)[i])])

(***************************************************************************)
(* Properties of the reconfiguration of a node's sockets.                  *)
(***************************************************************************)
\* of the sockets `before` a call with the schema `new`, those named in the
\* schema are among the sockets `after`, with their identity and their
\* links, and the others are exactly the ones that are gone
SocketsKept(before, after, new) ==
    /\ \A i \in 1..Len(before) :
          before[i].name \in Names(new) =>
              /\ \E j \in 1..Len(after) :
                    after[j].id = before[i].id /\ after[j].name = before[i].name
              /\ before[i].id \in DOMAIN last_call.links =>
                    /\ before[i].id \in DOMAIN socket_links
                    /\ socket_links[before[i].id] = last_call.links[before[i].id]
    /\ Ids(before) \ Ids(after) =
           {before[i].id : i \in {j \in 1..Len(before) : before[j].name \notin Names(new)}}

\* a second call with the same schema leaves the sockets as they are
SameAgain(current, new) == setup(current, new, next_id) = [sockets |-> current, fresh |-> next_id]

\* C10: after setup_sockets (called by malt_setup, or by the malt_update of
\* an Inline or ArrayIndex node), every socket named in the schema is the
\* socket it was, with its links; the sockets gone are exactly those the
\* schema does not name; calling it again with the same schema changes no
\* socket, type or array size; and, the links being as they were, malt_update
\* computes the same schema again.
C10_SetupSocketsKeepsSockets ==
    last_call.called =>
        /\ SocketsKept(last_call.inputs, inputs, last_call.new_inputs)
        /\ SocketsKept(last_call.outputs, outputs, last_call.new_outputs)
        /\ SameAgain(inputs, last_call.new_inputs)
        /\ SameAgain(outputs, last_call.new_outputs)
        /\ variant = "MaltInlineNode" =>
              /\ InlineInputs(inputs, socket_links) = last_call.new_inputs
              /\ InlineOutputs(outputs, socket_links) = last_call.new_outputs
        /\ variant = "MaltArrayIndexNode" =>
              /\ ArrayIndexInputs(inputs, socket_links) = last_call.new_inputs
              /\ ArrayIndexOutputs(inputs, socket_links) = last_call.new_outputs

\* C10, its case: a call has kept a linked socket, removed another and
\* created a third
C10_KeptRemovedAndCreated ==
    /\ last_call.called
    /\ \E i \in 1..Len(last_call.inputs) :
          /\ last_call.inputs[i].id \in Ids(inputs)
          /\ last_call.inputs[i].id \in DOMAIN socket_links
    /\ Ids(last_call.inputs) \ Ids(inputs) # {}
    /\ Ids(inputs) \ Ids(last_call.inputs) # {}

(***************************************************************************)
(* Properties of the transpilers' identifiers.                             *)
(***************************************************************************)
\* C11: in each backend the parameter reference and the global reference of
\* two different (node source name, socket name) pairs are different texts.
C11_ReferencesAreInjective ==
    (/\ request.fn = "references"
     /\ <<request.node_name, request.name>> # <<request.other_node_name, request.other_name>>)
    => /\ reply.parameter # reply.other_parameter
       /\ reply.global # reply.other_global

\* the positions of the out and inout parameters, in signature order
OutParameters(ps) ==
    SelectSeq([i \in 1..Len(ps) |-> i], LAMBDA i : ps[i].io \in {"out", "inout"})

\* the call expression, each out or inout argument replaced by its local
CallExpression(function, name, parameters) ==
    [ref |-> "call", node |-> name, name |-> function.name,
     args |-> [i \in 1..Len(parameters) |->
                 IF function.parameters[i].io \in {"out", "inout"}
                 THEN parameter_reference(name, function.parameters[i].name)
                 ELSE parameters[i]]]

\* code is one declaration per out or inout parameter, in signature order,
\* initialized with what the caller gave (nothing if it gave None), and
\* then the call: declared into the 'result' local if and only if the
\* function's type is neither void nor a sampler, a bare statement if not
CallCode(code, function, name, parameters, outs) ==
    /\ Len(code) = Len(outs) + 1
    /\ \A j \in 1..Len(outs) :
          code[j] = [st |-> "declaration", type |-> function.parameters[outs[j]].type,
                     size |-> function.parameters[outs[j]].size,
                     name |-> parameter_reference(name, function.parameters[outs[j]].name),
                     value |-> parameters[outs[j]]]
    /\ code[Len(code)] =
          IF function.type # "void" /\ function.type \notin SamplerTypes
          THEN [st |-> "declaration", type |-> function.type, size |-> 0,
                name |-> parameter_reference(name, "result"),
                value |-> CallExpression(function, name, parameters)]
          ELSE [st |-> "statement", value |-> CallExpression(function, name, parameters)]

\* C20: GLSLTranspiler.call returns first the declarations of the locals of
\* the out and inout parameters, in signature order, then the call with
\* these locals as arguments, declared into the 'result' local if and only
\* if the return type is not 'void' and instantiable.
C20_CallDeclaresOutLocalsThenCalls ==
    (request.fn = "call" /\ request.lang = "GLSL") =>
        /\ reply.ok
        /\ CallCode(reply.code, request.function, request.name, request.parameters,
                    OutParameters(request.function.parameters))

\* C20, its case: a GLSL call of a function with an in, an out or an inout
\* parameter among two
C20_CallWithOutAndInParameters ==
    /\ request.fn = "call" /\ request.lang = "GLSL"
    /\ Len(request.function.parameters) = 2
    /\ request.function.parameters[1].io = "in"
    /\ request.function.parameters[2].io \in {"out", "inout"}
    /\ request.function.type = "sampler2D"
    /\ reply.ok /\ Len(reply.code) = 2

(***************************************************************************)
(* Properties of the Inline and ArrayIndex nodes.                          *)
(***************************************************************************)
\* the 1-based position of the last input that has a type or a link, 0 if none
LastInUse(ins, lnks) ==
    CHOOSE k \in 0..Len(ins) :
        /\ k # 0 => ins[k].data_type # "" \/ ins[k].id \in DOMAIN lnks
        /\ \A j \in (k + 1)..Len(ins) : ins[j].data_type = "" /\ ins[j].id \notin DOMAIN lnks

\* the sockets are named by the first n letters of 'abcdefgh', in order
FirstLetters(ins, n) ==
    /\ n \in 1..8
    /\ [i \in 1..Len(ins) |-> ins[i].name] = SubSeq(Letters, 1, n)

\* C17: the inputs of an Inline node are always named by the first n
\* letters of 'abcdefgh', in order, for some n from 1 to 8; and right after
\* malt_update n is min(k + 1, 8), k being the position of the last input
\* that had a type or a link when malt_update was called (0 if none had).
C17_InlineInputsAreFirstLetters ==
    variant = "MaltInlineNode" =>
        /\ FirstLetters(inputs, Len(inputs))
        /\ last_call # NoCall =>
              FirstLetters(inputs,
                  Min(LastInUse(last_call.inputs, last_call.links) + 1, 8))

\* C17, its case: malt_update has run on a node whose eighth input was in
\* use and has left the eight letters
C17_EightInputsAtTheCap ==
    /\ variant = "MaltInlineNode" /\ last_call # NoCall
    /\ LastInUse(last_call.inputs, last_call.links) = 8 /\ Len(inputs) = 8

\* the inputs that have a data_type, in the order of the collection
Typed(ins) == SelectSeq(ins, LAMBDA input : input.data_type # "")

\* the block declares one local per typed input, named as the input and
\* initialized from its link's reference or else its global reference, and
\* then, for a code that is not empty, assigns the code to the result local
InlineBlock(block, typed, code) ==
    /\ Len(block) = Len(typed) + (IF code = "" THEN 0 ELSE 1)
    /\ \A i \in 1..Len(typed) :
          <<block[i]>> =
              declaration(pipeline, typed[i].data_type, typed[i].array_size,
                          Ref("name", "", typed[i].name),
                          IF typed[i].id \in DOMAIN socket_links
                          THEN OtherReference(socket_links[typed[i].id])
                          ELSE global_reference(SourceName, typed[i].name))
    /\ code # "" =>
          block[Len(block)] =
              [st |-> "asignment", name |-> FormatReference(Named(outputs, "result")),
               value |-> [ref |-> "code", node |-> "", name |-> code]]

\* C18: the code of an Inline node is the declaration of the result local
\* followed by one scoped block; the block holds one declaration per input
\* with a data_type, in order and none for the others, and then, if and
\* only if the node's code text is not empty, the assignment of that text
\* to the result local.
C18_InlineCodeIsDeclarationAndBlock ==
    variant = "MaltInlineNode" =>
        \A code \in InlineCodes :
            /\ InlineSourceCode(inputs, outputs, socket_links, code).ok
            /\ Len(InlineSourceCode(inputs, outputs, socket_links, code).code) = 2
            /\ <<InlineSourceCode(inputs, outputs, socket_links, code).code[1]>> =
                  declaration(pipeline, Named(outputs, "result").data_type,
                              Named(outputs, "result").array_size,
                              FormatReference(Named(outputs, "result")), NoneRef)
            /\ InlineSourceCode(inputs, outputs, socket_links, code).code[2].st = "scoped"
            /\ InlineBlock(InlineSourceCode(inputs, outputs, socket_links, code).code[2].code,
                           Typed(inputs), code)

\* C18, its case: the node has an input with a type and a link, one with a
\* type and no link and one without a type; its code declares two locals
C18_TypedLinkedAndUntypedInputs ==
    /\ variant = "MaltInlineNode"
    /\ \E i, j, k \in 1..Len(inputs) :
          /\ inputs[i].data_type # "" /\ inputs[i].id \in DOMAIN socket_links
          /\ inputs[j].data_type # "" /\ inputs[j].id \notin DOMAIN socket_links
          /\ inputs[k].data_type = ""
    /\ Len(InlineSourceCode(inputs, outputs, socket_links, "a + b").code[2].code) = 3

\* C12: after malt_update of an ArrayIndex node whose 'array' input is not
\* linked, the 'element' output has data type '' and size 0, and
\* get_source_code returns a declaration of the element local.
C12_UnlinkedArrayStillDeclares ==
    (/\ variant = "MaltArrayIndexNode"
     /\ last_call # NoCall
     /\ ~Linked(Named(inputs, "array"), socket_links))
    => /\ Named(outputs, "element").data_type = ""
       /\ Named(outputs, "element").array_size = 0
       /\ ArrayIndexSourceCode(inputs, outputs, socket_links).ok
       /\ \E value \in {ArrayIndexSourceCode(inputs, outputs, socket_links).code[1].value} :
             ArrayIndexSourceCode(inputs, outputs, socket_links).code
                = declaration(pipeline, "", 0, FormatReference(Named(outputs, "element")), value)

(***************************************************************************)
(* Properties of the library cache and its polls.                          *)
(***************************************************************************)
\* the paths the next poll would put in its reflection request
NextRequest == needs_update(new_dic(LIBRARIES, library_path), mtime, TIMESTAMP)

\* C21: between polls, every library still in the cache with a dependency
\* modified since its reflection was read is in the request of the next poll:
\* one of its dependency files has a modification time strictly greater than
\* the timestamp the last completed poll stored, so no modification is missed.
C21_ModificationsReachALaterPoll ==
    poll.pc = "idle" =>
        \A path \in DOMAIN LIBRARIES \cap DOMAIN new_dic(LIBRARIES, library_path) :
            (LIBRARIES[path].resolved /\ path \in unreflected) => path \in NextRequest

\* C22: a poll that passed the engine check and has ended made one call of
\* reflect_source_libraries with all the paths its scan collected, or no call
\* when it collected none, and invoked MaltTree.update for exactly the trees
\* whose library path is among those paths, for no tree when
\* disable_tree_updates is set: a tree of an unchanged library, or of no
\* library, is not recompiled.
C22_OneRequestThenUpdatesOfItsTrees ==
    (poll.pc = "idle" /\ poll.passed) =>
        /\ poll.requests = IF poll.needs_update = {} THEN << >>
                           ELSE <<poll.needs_update>>
        /\ \A tree \in Trees :
              tree \in poll.updated <=>
                  /\ ~poll.disable_tree_updates
                  /\ library_path[tree] \in poll.needs_update

\* a poll reflected one library and recompiled its tree, not the tree of the
\* other, unchanged, library
C22_PollUpdatesOneOfTwoTrees ==
    /\ poll.pc = "idle" /\ poll.passed
    /\ Len(poll.requests) = 1
    /\ \E tree \in Trees, other \in Trees :
          /\ tree \in poll.updated
          /\ other \notin poll.updated
          /\ library_path[other] # ""
          /\ LIBRARIES[library_path[other]].resolved

\* the library paths some tree names
Referenced == {library_path[tree] : tree \in Trees} \ {""}

\* C23: the step of a poll that passes the engine check leaves in the cache
\* an entry for exactly the paths some tree names, the entry it had for a
\* path already there and None for a new one, before any reflection; and from
\* there to the end of the poll the keys of the cache are the referenced
\* paths.
C23_CacheKeysAreTheReferencedPaths ==
    [][ /\ (poll.pc = "idle" /\ poll'.passed) =>
               LIBRARIES' = [path \in Referenced |->
                                IF path \in DOMAIN LIBRARIES THEN LIBRARIES[path]
                                ELSE None]
        /\ poll'.passed => DOMAIN LIBRARIES' = Referenced' ]_vars

\* a poll dropped the entry of a path no tree names any more and added an
\* unresolved one for a path newly named, not yet reflected
C23_PollDroppedAndAdded ==
    /\ poll.passed
    /\ poll.pc = "reflect"
    /\ poll.dropped # {}
    /\ \E path \in poll.added : ~LIBRARIES[path].resolved

(***************************************************************************)
(* Properties of the boundaries of the generated source.                   *)
(***************************************************************************)
\* the global references a statement holds: its value, or the arguments of
\* the call its value is
GlobalReferencesOf(statement) ==
    IF "value" \notin DOMAIN statement THEN {}
    ELSE (IF statement.value.ref = "global" THEN {statement.value} ELSE {})
         \cup (IF "args" \in DOMAIN statement.value
               THEN {r \in Elems(statement.value.args) : r.ref = "global"}
               ELSE {})

\* the global references in the code of the blocks of an entry
GlobalReferences(blocks) ==
    UNION {UNION {GlobalReferencesOf(blocks[i].code[j]) : j \in 1..Len(blocks[i].code)} :
              i \in 1..Len(blocks)}

\* the globals the GLOBAL block declares
DeclaredGlobals(src) ==
    {GlobalStatements(src)[i].name :
        i \in {j \in 1..Len(GlobalStatements(src)) : GlobalStatements(src)[j].st = "uniform"}}

\* C24: in a compilation for the GLSL backend, every global reference in the
\* code of a compiled node, in any entry of the source map, is the name of a
\* global declaration of the GLOBAL block of the same compilation.
C24_GlobalReferencesAreDeclared ==
    pipeline = "GLSL" =>
        \A src \in Sources : \A k \in DOMAIN src.shader :
            GlobalReferences(src.shader[k]) \subseteq DeclaredGlobals(src)

\* C25 as the spec states it: once the normalization loop of update is over,
\* every input of a Malt node whose get_linked() resolves to a socket,
\* directly or through reroute nodes, has the data_type and the array_size
\* of that socket.
C25_ResolvedSocketsMatch ==
    \A f \in Passes :
        f.kind = "update" /\ f.pc \in {"source", "reset", "return"} =>
            \A n \in MaltNodes : \A i \in 1..Len(Inputs(n)) :
                get_linked(InputSockets(n)[i]) \notin {NoSocket, RecursionError} =>
                    /\ DataType(get_linked(InputSockets(n)[i])) = DataType(InputSockets(n)[i])
                    /\ ArraySize(get_linked(InputSockets(n)[i])) = ArraySize(InputSockets(n)[i])

\* C26: the source map get_generated_source builds has one entry per
\* distinct io_type of the exit nodes, beside GLOBAL; the entry of an io_type
\* is the source of the last exit node, in the tree's node order, of that
\* io_type, and no entry holds the code of an exit node that another of its
\* io_type follows.
C26_EntryIsSourceOfLastExit ==
    \A src \in Sources :
        /\ DOMAIN src.shader = {io_type[e] : e \in ExitNodes}
        /\ \A k \in DOMAIN src.shader :
              /\ src.shader[k] = get_source(LastExit(k), << >>).code
              /\ \A e \in ExitNodes \ {LastExit(io_type[e]) : e \in ExitNodes} :
                    Occurrences(src.shader[k], e) = 0

\* a source was written for a tree whose two exit nodes share an io_type and
\* have different code
C26_TwoExitsOfOneIoType ==
    /\ Generated /\ get_generated_source.ok
    /\ Cardinality(ExitNodes) = 2
    /\ Cardinality({io_type[e] : e \in ExitNodes}) = 1
    /\ \E e \in ExitNodes : is_linked(In(e, "color"))

====
